---- MODULE Spec2Model ----
(***************************************************************************)
(* Verification model of the study assistant's core:                       *)
(*   - the scheduler (app/tools/study_planner.py, app/models/plan.py),     *)
(*   - the embedding cache (app/tools/embedding_cache.py),                 *)
(*   - the index build (app/cli/build_index.py, app/tools/faiss_index.py), *)
(*   - the embedding provider call with retries (app/tools/embed.py).      *)
(* Each subsystem has its own specification over the shared variables; a   *)
(* specification leaves the other subsystems' variables untouched.         *)
(***************************************************************************)
EXTENDS Integers, Sequences, FiniteSets, TLC

VARIABLES
    \* ---- scheduler: generate_multi_exam_plan ----
    coverages,        \* the loaded enriched coverages, one topic list per exam
    strategy,         \* "round_robin" | "priority_first" | "balanced"
    start_date,       \* day number; day 0 is a Monday
    end_date,
    ppc,              \* position inside generate_multi_exam_plan
    work_items,
    exam_queues,      \* round_robin: one queue per exam
    rr_pos,           \* round_robin: the exam the inner for loop is at
    exam_minutes,     \* balanced: cumulative scheduled minutes per exam
    scheduled_items,
    next_item,        \* day packing: index of the next scheduled item
    days,
    current_day,      \* <<>> for None, <<day>> otherwise
    current_date,
    warnings,         \* number of "Ran past end date" warnings printed
    plan,             \* <<>> until returned, then <<the StudyPlan>>
    \* ---- index build: build_index.main with get_or_compute_embeddings ----
    npy,              \* the vector artifact <chunk_id>.npy of every chunk id
    meta,             \* the digest artifact <chunk_id>.meta of every chunk id
    chunks,           \* the chunk list of the current run
    cpc,              \* position inside the build
    idx,              \* loop index of the running loop
    embeddings_list,
    texts_to_embed,
    indices_to_embed,
    stats,
    new_embeddings,
    result,           \* the returned embeddings array
    provider_calls,   \* calls of embed_function made by the current run
    runs,             \* number of runs started
    repeat,           \* the run repeats the chunk list of a run that just completed
    index_file,       \* the persisted index artifact faiss.index
    mapping_file,     \* the persisted mapping artifact row_to_chunk_id.json
    \* ---- embedding provider call: embed_texts ----
    texts,            \* the texts to embed
    batch_size,
    max_retries,
    epc,              \* position inside embed_texts
    batch_at,         \* i, the 0-based offset of the current batch
    attempt,
    all_embeddings,
    requests,         \* log of the provider requests made
    sleeps,           \* log of time.sleep calls, in tenths of a second
    embeddings_array, \* <<>> until returned, then <<the returned array>>
    \* ---- question post-pass of generate_multi_exam_plan ----
    q_days,           \* the packed days the post-pass works on
    generate_questions,
    api_key,          \* is GOOGLE_API_KEY or GEMINI_API_KEY set?
    topic_chunks,     \* per objective: does the enriched topic have top_chunks?
    qpc,              \* position inside the post-pass
    q_i,              \* i of "for i, block in enumerate(all_blocks, 1)"
    q_outcomes,       \* what happened for each block visited so far
    questions_generated,
    q_plan,           \* <<>> until returned, then <<the StudyPlan>>
    \* ---- retrieval: search_index and enrich_topic ----
    index,            \* per index row, its similarity score with the query (percent)
    mapping,          \* per index row, the chunk metadata of the mapping, if any
    top_k,
    filters,
    ranked,           \* the raw candidates the last index.search returned
    results,
    spc,              \* position inside search_index
    use_chapter_filter,
    chapter_number,   \* the topic's chapter; 0 stands for none
    tpc,              \* the state of the topic's enrichment
    searches,         \* log of the searches enrich_topic made
    enriched,         \* <<>> until returned, then <<the EnrichedTopic>>
    min_score,        \* enrich_topic's min_score argument (percent)
    query_requests,   \* outcomes of the provider requests embed_query made
    \* ---- pure calculations, one call each ----
    fn,               \* the function called
    args,             \* its arguments
    ret,              \* <<>> until it returns, then <<the returned value>>
    \* ---- concurrent save_embedding_to_cache calls for one chunk id ----
    wpc,              \* per writer: the file write it makes next, or "done"
    wtext,            \* per writer: the text it saves the embedding of
    got,              \* <<>> until a later load returns, then <<text, result>>
    \* ---- the command-line runs: enrich_coverage, then generate_plan ----
    coverage,         \* the bullets of the exam coverage, in order
    present,          \* which of the index, mapping and chunk artifacts exist
    kpc,              \* position inside the runs
    enriched_topics,
    enriched_coverage,\* <<>> until enrich_coverage returns, then <<its result>>
    output_file,      \* the enriched coverage artifact, <<>> while absent
    planned,          \* topics generate_multi_exam_plan has processed
    plan_file         \* the plan artifact, <<>> while absent

plannerVars == <<coverages, strategy, start_date, end_date, ppc, work_items,
                 exam_queues, rr_pos, exam_minutes, scheduled_items, next_item,
                 days, current_day, current_date, warnings, plan>>

cacheVars == <<npy, meta, chunks, cpc, idx, embeddings_list, texts_to_embed,
               indices_to_embed, stats, new_embeddings, result, provider_calls,
               runs, repeat, index_file, mapping_file>>

embedVars == <<texts, batch_size, max_retries, epc, batch_at, attempt,
               all_embeddings, requests, sleeps, embeddings_array>>

questionVars == <<q_days, generate_questions, api_key, topic_chunks, qpc, q_i,
                  q_outcomes, questions_generated, q_plan>>

searchVars == <<index, mapping, top_k, filters, ranked, results, spc,
                use_chapter_filter, chapter_number, tpc, searches, enriched,
                min_score, query_requests>>

calcVars == <<fn, args, ret>>

writerVars == <<wpc, wtext, got>>

runVars == <<coverage, present, kpc, enriched_topics, enriched_coverage, output_file,
             planned, plan_file>>

vars == <<plannerVars, cacheVars, embedVars, questionVars, searchVars, calcVars,
          writerVars, runVars>>

\* What a subsystem's steps leave alone: the other subsystems.
notPlanner == <<runVars, writerVars, cacheVars, embedVars, questionVars, searchVars, calcVars>>
notCache == <<runVars, writerVars, plannerVars, embedVars, questionVars, searchVars, calcVars>>
notEmbed == <<runVars, writerVars, plannerVars, cacheVars, questionVars, searchVars, calcVars>>
notQuestions == <<runVars, writerVars, plannerVars, cacheVars, embedVars, searchVars, calcVars>>
notSearch == <<runVars, writerVars, plannerVars, cacheVars, embedVars, questionVars, calcVars>>
notCalc == <<runVars, writerVars, plannerVars, cacheVars, embedVars, questionVars, searchVars>>
notWriters == <<runVars, plannerVars, embedVars, questionVars, searchVars, calcVars>>
notRuns == <<plannerVars, cacheVars, embedVars, questionVars, calcVars, writerVars>>

(***************************************************************************)
(* Bounds of the model.                                                    *)
(***************************************************************************)
MaxExams == 2
MaxTopics == 4
MaxRuns == 3
MaxTexts == 3
MaxBlocks == 3
MaxRows == 4
MaxPages == 4

(***************************************************************************)
(* Generic helpers.                                                        *)
(***************************************************************************)
Range(s) == {s[i] : i \in 1..Len(s)}

RECURSIVE SumSeq(_)
SumSeq(s) == IF s = <<>> THEN 0 ELSE Head(s) + SumSeq(Tail(s))

RECURSIVE Flatten(_)
Flatten(ss) == IF ss = <<>> THEN <<>> ELSE Head(ss) \o Flatten(Tail(ss))

\* Mutant: the head is removed whatever the position.
RemoveAt_Head(s, i) == Tail(s)

RemoveAt(s, i) == SubSeq(s, 1, i - 1) \o SubSeq(s, i + 1, Len(s))

\* Python's tuple comparison a < b for two tuples of integers of equal length.
LexLess(a, b) ==
    \E i \in 1..Len(a) : a[i] < b[i] /\ \A j \in 1..(i - 1) : a[j] = b[j]

(***************************************************************************)
(* Scheduler inputs.                                                       *)
(***************************************************************************)
Strategies == {"round_robin", "priority_first", "balanced"}

minutes_per_day == 90

\* Topics of an enriched coverage.  confidence is in percent (0.7 is 70).
TopicKinds ==
    { [chapter |-> 1, bullet |-> "b1", problems |-> 0, confidence |-> 90],
      [chapter |-> 4, bullet |-> "b2", problems |-> 3, confidence |-> 50],
      [chapter |-> 2, bullet |-> "b3", problems |-> 0, confidence |-> 90],
      [chapter |-> 1, bullet |-> "b4", problems |-> 1, confidence |-> 90] }

\* The lookup map built from the prioritizer's result, keyed by
\* (chapter, bullet); keys without an entry use the heuristic default.
priority_map ==
    [ k \in {<<2, "b3">>, <<1, "b4">>} |->
        IF k = <<2, "b3">>
        THEN [priority |-> "critical", reason |-> "r", time_estimate |-> 0]
        ELSE [priority |-> "low", reason |-> "r", time_estimate |-> 100] ]

\* (start_date, end_date): a Friday with no slack, a Saturday with a week.
DateRanges == {<<4, 4>>, <<5, 11>>}

TopicSeqs(n) == UNION {[1..m -> TopicKinds] : m \in 0..n}

\* All lists of k coverages holding at most budget topics in total.
RECURSIVE CoverageLists(_, _)
CoverageLists(k, budget) ==
    IF k = 0 THEN {<<>>}
    ELSE UNION { {<<ts>> \o rest : rest \in CoverageLists(k - 1, budget - Len(ts))}
                 : ts \in TopicSeqs(budget) }

(***************************************************************************)
(* Scheduler helpers.                                                      *)
(***************************************************************************)
\* Mutant: the ranks run the other way, optional first.
priority_order_Reversed(p) ==
    CASE p = "critical" -> 4
      [] p = "high"     -> 3
      [] p = "medium"   -> 2
      [] p = "low"      -> 1
      [] p = "optional" -> 0
      [] OTHER          -> 2

priority_order(p) ==
    CASE p = "critical" -> 0
      [] p = "high"     -> 1
      [] p = "medium"   -> 2
      [] p = "low"      -> 3
      [] p = "optional" -> 4
      [] OTHER          -> 2

estimate_time_minutes(topic) ==
    30
    + (IF topic.problems > 2 THEN 20 ELSE IF topic.problems > 0 THEN 10 ELSE 0)
    + (IF topic.chapter <= 3 THEN 15 ELSE 0)
    + (IF topic.confidence < 70 THEN 10 ELSE 0)

\* One entry of the work queue for topic number pos of exam number i,
\* looked up in the given lookup map.
WorkItemWith(map, i, pos, topic) ==
    LET key == <<topic.chapter, topic.bullet>> IN
    IF key \in DOMAIN map
    THEN [topic |-> topic, exam_index |-> i, pos |-> pos,
          minutes |-> map[key].time_estimate,
          priority |-> map[key].priority,
          priority_reason |-> map[key].reason]
    ELSE [topic |-> topic, exam_index |-> i, pos |-> pos,
          minutes |-> estimate_time_minutes(topic),
          priority |-> "medium",
          priority_reason |-> ""]

WorkItem(i, pos, topic) == WorkItemWith(priority_map, i, pos, topic)

BuildWorkItems(covs) ==
    Flatten([i \in 1..Len(covs) |->
                [p \in 1..Len(covs[i]) |-> WorkItem(i, p, covs[i][p])]])

\* Mutant: the sort ignores the priority.
SortKey_NoPriority(strat, x) == <<x.exam_index, x.topic.chapter>>

SortKey(strat, x) ==
    CASE strat = "round_robin" ->
            <<x.exam_index, priority_order(x.priority), x.topic.chapter>>
      [] strat = "priority_first" ->
            <<priority_order(x.priority), x.exam_index, x.topic.chapter>>
      [] OTHER ->
            <<priority_order(x.priority), x.topic.chapter>>

\* list.sort(key=...): a stable sort.
RECURSIVE InsertSorted(_, _, _)
InsertSorted(x, s, strat) ==
    IF s = <<>> THEN <<x>>
    ELSE IF LexLess(SortKey(strat, x), SortKey(strat, Head(s)))
         THEN <<x>> \o s
         ELSE <<Head(s)>> \o InsertSorted(x, Tail(s), strat)

RECURSIVE SortedBy(_, _)
SortedBy(s, strat) ==
    IF s = <<>> THEN <<>>
    ELSE InsertSorted(s[Len(s)], SortedBy(SubSeq(s, 1, Len(s) - 1), strat), strat)

\* Mutant: a tie goes to the last minimal exam.
MinExam_LastOnTie(em) ==
    CHOOSE e \in DOMAIN em :
        /\ \A f \in DOMAIN em : em[e] <= em[f]
        /\ \A f \in DOMAIN em : f > e => em[f] > em[e]

\* Mutant: the exam with the most minutes is picked.
MinExam_Max(em) ==
    CHOOSE e \in DOMAIN em :
        /\ \A f \in DOMAIN em : em[e] >= em[f]
        /\ \A f \in DOMAIN em : f < e => em[f] < em[e]

\* min(exam_minutes.items(), key=lambda x: x[1])[0]: the first minimal exam.
MinExam(em) ==
    CHOOSE e \in DOMAIN em :
        /\ \A f \in DOMAIN em : em[e] <= em[f]
        /\ \A f \in DOMAIN em : f < e => em[f] > em[e]

\* create_study_block: the block's time estimate.
BlockMinutes(item) ==
    IF item.minutes # 0 THEN item.minutes ELSE estimate_time_minutes(item.topic)

create_study_block(item) ==
    [exam_index |-> item.exam_index, pos |-> item.pos,
     chapter |-> item.topic.chapter, objective |-> item.topic.bullet,
     priority |-> item.priority,
     time_estimate_minutes |-> BlockMinutes(item)]

\* StudyDay.add_block
add_block(day, block) ==
    [day EXCEPT !.blocks = Append(@, block),
                !.total_minutes = @ + block.time_estimate_minutes]

\* Mutant: weekends are not skipped.
SkipWeekend_Never(d) == d

\* while current_date.weekday() >= 5: current_date += 1 day
SkipWeekend(d) == IF d % 7 = 5 THEN d + 2 ELSE IF d % 7 = 6 THEN d + 1 ELSE d

\* StudyPlan.calculate_totals
calculate_totals(ds) ==
    [days |-> ds,
     total_days |-> Len(ds),
     total_minutes |-> SumSeq([i \in 1..Len(ds) |-> ds[i].total_minutes]),
     total_topics |-> SumSeq([i \in 1..Len(ds) |-> Len(ds[i].blocks)])]

(***************************************************************************)
(* Scheduler: generate_multi_exam_plan as a sequence of steps.             *)
(***************************************************************************)
PlannerIdle ==
    /\ coverages = <<>> /\ strategy = "balanced"
    /\ start_date = 0 /\ end_date = 0
    /\ ppc = "off"
    /\ work_items = <<>> /\ exam_queues = <<>> /\ rr_pos = 1
    /\ exam_minutes = <<>> /\ scheduled_items = <<>> /\ next_item = 1
    /\ days = <<>> /\ current_day = <<>> /\ current_date = 0
    /\ warnings = 0 /\ plan = <<>>

PlannerInit ==
    /\ \E n \in 1..MaxExams : coverages \in CoverageLists(n, MaxTopics)
    /\ strategy \in Strategies
    /\ \E r \in DateRanges : start_date = r[1] /\ end_date = r[2]
    /\ ppc = "build"
    /\ work_items = <<>> /\ exam_queues = <<>> /\ rr_pos = 1
    /\ exam_minutes = <<>> /\ scheduled_items = <<>> /\ next_item = 1
    /\ days = <<>> /\ current_day = <<>> /\ current_date = start_date
    /\ warnings = 0 /\ plan = <<>>

\* Calls with arguments outside the documented ranges as well: a strategy
\* that is none of the three, and a start date after the end date; and a
\* window from a Saturday to the Monday after it.
PlannerArgsInit ==
    /\ coverages \in CoverageLists(1, 2) \cup CoverageLists(2, 2)
    /\ strategy \in Strategies \cup {"sequential"}
    /\ \E r \in DateRanges \cup {<<11, 5>>, <<5, 7>>} :
          start_date = r[1] /\ end_date = r[2]
    /\ ppc = "build"
    /\ work_items = <<>> /\ exam_queues = <<>> /\ rr_pos = 1
    /\ exam_minutes = <<>> /\ scheduled_items = <<>> /\ next_item = 1
    /\ days = <<>> /\ current_day = <<>> /\ current_date = start_date
    /\ warnings = 0 /\ plan = <<>>

\* Build the work queue from every topic of every coverage.
BuildWorkQueue ==
    /\ ppc = "build"
    /\ work_items' = BuildWorkItems(coverages)
    /\ ppc' = "order"
    /\ UNCHANGED <<notPlanner, coverages, strategy, start_date, end_date, exam_queues, rr_pos,
                   exam_minutes, scheduled_items, next_item, days, current_day,
                   current_date, warnings, plan>>

\* round_robin: sort, then distribute the items over the per-exam queues.
RoundRobinSort ==
    /\ ppc = "order" /\ strategy = "round_robin"
    /\ LET sorted == SortedBy(work_items, "round_robin") IN
       /\ work_items' = sorted
       /\ exam_queues' = [e \in 1..Len(coverages) |->
                            SelectSeq(sorted, LAMBDA x : x.exam_index = e)]
       /\ ppc' = IF sorted = <<>> THEN "pack" ELSE "rr_loop"
    /\ rr_pos' = 1
    /\ UNCHANGED <<notPlanner, coverages, strategy, start_date, end_date, exam_minutes,
                   scheduled_items, next_item, days, current_day, current_date,
                   warnings, plan>>

\* round_robin: one iteration of "for exam_id in exam_queues"; the while
\* condition is evaluated when the for loop has visited the last exam.
RoundRobinVisit ==
    /\ ppc = "rr_loop"
    /\ LET q == exam_queues[rr_pos]
           queues == IF q # <<>> THEN [exam_queues EXCEPT ![rr_pos] = Tail(q)]
                     ELSE exam_queues
       IN
       /\ exam_queues' = queues
       /\ scheduled_items' = IF q # <<>> THEN Append(scheduled_items, Head(q))
                             ELSE scheduled_items
       /\ IF rr_pos < Len(exam_queues)
          THEN rr_pos' = rr_pos + 1 /\ ppc' = "rr_loop"
          ELSE /\ rr_pos' = 1
               /\ ppc' = IF \A e \in DOMAIN queues : queues[e] = <<>>
                         THEN "pack" ELSE "rr_loop"
    /\ UNCHANGED <<notPlanner, coverages, strategy, start_date, end_date, work_items,
                   exam_minutes, next_item, days, current_day, current_date,
                   warnings, plan>>

\* priority_first: a single sort.
PriorityFirstSort ==
    /\ ppc = "order" /\ strategy = "priority_first"
    /\ work_items' = SortedBy(work_items, "priority_first")
    /\ scheduled_items' = work_items'
    /\ ppc' = "pack"
    /\ UNCHANGED <<notPlanner, coverages, strategy, start_date, end_date, exam_queues, rr_pos,
                   exam_minutes, next_item, days, current_day, current_date,
                   warnings, plan>>

\* balanced: sort by (priority, chapter) and reset the per-exam minutes.
BalancedSort ==
    /\ ppc = "order" /\ strategy \notin {"round_robin", "priority_first"}
    /\ work_items' = SortedBy(work_items, "balanced")
    /\ exam_minutes' = [e \in 1..Len(coverages) |-> 0]
    /\ scheduled_items' = <<>>
    /\ ppc' = IF work_items = <<>> THEN "pack" ELSE "balanced_loop"
    /\ UNCHANGED <<notPlanner, coverages, strategy, start_date, end_date, exam_queues, rr_pos,
                   next_item, days, current_day, current_date, warnings, plan>>

\* The exam the balanced loop picks, and the position in work_items of the
\* item it schedules (0 when that exam has no item left).
BalancedPick(items, em) ==
    LET min_exam == MinExam(em)
        hits == {i \in 1..Len(items) : items[i].exam_index = min_exam}
    IN IF hits = {} THEN 0 ELSE CHOOSE i \in hits : \A j \in hits : i <= j

\* balanced: one iteration of "while work_items".
BalancedStep ==
    /\ ppc = "balanced_loop"
    /\ LET k == BalancedPick(work_items, exam_minutes) IN
       IF k = 0
       THEN \* the for loop finds nothing: the iteration changes nothing
            UNCHANGED <<work_items, exam_minutes, scheduled_items, ppc>>
       ELSE /\ scheduled_items' = Append(scheduled_items, work_items[k])
            /\ exam_minutes' = [exam_minutes EXCEPT
                                  ![work_items[k].exam_index] = @ + work_items[k].minutes]
            /\ work_items' = RemoveAt(work_items, k)
            /\ ppc' = IF work_items' = <<>> THEN "pack" ELSE "balanced_loop"
    /\ UNCHANGED <<notPlanner, coverages, strategy, start_date, end_date, exam_queues, rr_pos,
                   next_item, days, current_day, current_date, warnings, plan>>

\* Mutant: every item opens a new day.
NeedsNewDay_Always(cur, item) == TRUE

\* Mutant: a day on the end date counts as past it.
PastEnd_OrOn(d, e) == d >= e

\* if current_date > end_date: the overflow warning
PastEnd(d, e) == d > e

\* Does the item open a new day?
NeedsNewDay(cur, item) ==
    cur = <<>> \/ cur[1].total_minutes + item.minutes > minutes_per_day

\* Day packing: one iteration of "for item in scheduled_items".
PackItem ==
    /\ ppc = "pack" /\ next_item <= Len(scheduled_items)
    /\ LET item == scheduled_items[next_item]
           fresh == NeedsNewDay(current_day, item)
           date1 == IF fresh
                    THEN SkipWeekend(IF current_day # <<>> THEN current_date + 1
                                     ELSE current_date)
                    ELSE current_date
           base == IF fresh
                   THEN [date |-> date1, blocks |-> <<>>, total_minutes |-> 0]
                   ELSE current_day[1]
       IN
       /\ days' = IF fresh /\ current_day # <<>> THEN Append(days, current_day[1])
                  ELSE days
       /\ current_date' = date1
       /\ warnings' = IF fresh /\ PastEnd(date1, end_date) THEN warnings + 1 ELSE warnings
       /\ current_day' = <<add_block(base, create_study_block(item))>>
    /\ next_item' = next_item + 1
    /\ UNCHANGED <<notPlanner, coverages, strategy, start_date, end_date, ppc, work_items,
                   exam_queues, rr_pos, exam_minutes, scheduled_items, plan>>

\* Add the final day, build the plan and return it.
PackFinish ==
    /\ ppc = "pack" /\ next_item > Len(scheduled_items)
    /\ days' = IF current_day # <<>> THEN Append(days, current_day[1]) ELSE days
    /\ plan' = <<calculate_totals(days')>>
    /\ ppc' = "done"
    /\ UNCHANGED <<notPlanner, coverages, strategy, start_date, end_date, work_items,
                   exam_queues, rr_pos, exam_minutes, scheduled_items, next_item,
                   current_day, current_date, warnings>>

NextPlan ==
    \/ BuildWorkQueue
    \/ RoundRobinSort
    \/ RoundRobinVisit
    \/ PriorityFirstSort
    \/ BalancedSort
    \/ BalancedStep
    \/ PackItem
    \/ PackFinish


(***************************************************************************)
(* Embedding cache: inputs and file contents.                              *)
(***************************************************************************)
ChunkIds == {"c1", "c2"}
Texts == {"t1", "t2", "t3"}

\* hashlib.md5(text).hexdigest()[:8], as a sequence of characters.  The
\* digest is truncated, so two texts can share it: t1 and t3 do.
get_text_hash(text) ==
    CASE text = "t1" -> <<"a", "1">>
      [] text = "t2" -> <<"b", "2">>
      [] text = "t3" -> <<"a", "1">>

\* The Embedding Provider's vector for a text.
EmbedOf(text) ==
    CASE text = "t1" -> 3
      [] text = "t2" -> -2
      [] text = "t3" -> 5

\* Chunk lists: chunk ids are unique within a list.
ChunkLists ==
    LET Chunks == [chunk_id : ChunkIds, text : Texts] IN
    { cl \in UNION {[1..n -> Chunks] : n \in 0..Cardinality(ChunkIds)} :
        \A i, j \in 1..Len(cl) : i # j => cl[i].chunk_id # cl[j].chunk_id }

\* File contents.  A vector artifact is absent, corrupt (np.load raises) or
\* holds an array; a digest artifact is absent, unreadable (read_text raises)
\* or holds text.
NoFile == [state |-> "absent", value |-> 0]
CorruptNpy == [state |-> "corrupt", value |-> 0]
NpyOf(v) == [state |-> "ok", value |-> v]
NoMeta == [state |-> "absent", text |-> <<>>]
MetaOf(t) == [state |-> "ok", text |-> t]

IsSpace(ch) == ch \in {" ", "\n", "\t"}

\* str.strip()
RECURSIVE LStrip(_)
LStrip(s) == IF s # <<>> /\ IsSpace(Head(s)) THEN LStrip(Tail(s)) ELSE s

RECURSIVE RStrip(_)
RStrip(s) ==
    IF s # <<>> /\ IsSpace(s[Len(s)]) THEN RStrip(SubSeq(s, 1, Len(s) - 1)) ELSE s

Strip(s) == RStrip(LStrip(s))

ProperPrefixes(s) == {SubSeq(s, 1, n) : n \in 0..(Len(s) - 1)}

None == [state |-> "none", value |-> 0]
Vec(v) == [state |-> "vec", value |-> v]

(***************************************************************************)
(* Embedding cache: load_cached_embedding and save_embedding_to_cache.     *)
(***************************************************************************)
\* Mutant: the digest is ignored, every stored vector is a hit.
load_cached_embedding_AnyDigest(chunk_id, text) ==
    IF npy[chunk_id].state = "ok"
    THEN [embedding |-> Vec(npy[chunk_id].value), valid |-> TRUE]
    ELSE [embedding |-> None, valid |-> FALSE]

\* load_cached_embedding: (embedding or None, cache_valid).  Every failure
\* inside the try block ends in the except branch.
load_cached_embedding(chunk_id, text) ==
    IF npy[chunk_id].state = "absent"
    THEN [embedding |-> None, valid |-> FALSE]
    ELSE IF npy[chunk_id].state = "corrupt"
    THEN [embedding |-> None, valid |-> FALSE]
    ELSE IF meta[chunk_id].state = "absent"
    THEN [embedding |-> Vec(npy[chunk_id].value), valid |-> TRUE]
    ELSE IF meta[chunk_id].state = "unreadable"
    THEN [embedding |-> None, valid |-> FALSE]
    ELSE IF Strip(meta[chunk_id].text) = get_text_hash(text)
    THEN [embedding |-> Vec(npy[chunk_id].value), valid |-> TRUE]
    ELSE [embedding |-> None, valid |-> FALSE]

\* np.save(cache_path, embedding)
SavedNpy(embedding) == NpyOf(embedding)

\* Mutant: the digest artifact is written empty.
SavedMeta_Empty(text) == MetaOf(<<>>)

\* meta_path.write_text(get_text_hash(text))
SavedMeta(text) == MetaOf(get_text_hash(text))

\* Mutant: append-on-completion, the i-th computed vector goes to slot i.
InsertComputed_ByArrival(list, i, at, embedding) == [list EXCEPT ![i] = Vec(embedding)]

\* embeddings_list[idx] = embedding, for miss number i at chunk position at
InsertComputed(list, i, at, embedding) == [list EXCEPT ![at] = Vec(embedding)]

(***************************************************************************)
(* Index artifacts.                                                        *)
(***************************************************************************)
NoIndex == [state |-> "absent", rows |-> <<>>]
IndexOf(rows) == [state |-> "ok", rows |-> rows]
NoMapping == [state |-> "absent", entries |-> <<>>]
MappingOf(entries) == [state |-> "ok", entries |-> entries]

Abs(x) == IF x < 0 THEN -x ELSE x

\* normalize_vectors over one-dimensional vectors: the norm of v is |v|, a
\* zero norm is replaced by 1.
normalize_vectors(vectors) ==
    [i \in 1..Len(vectors) |->
        LET norm == IF Abs(vectors[i]) = 0 THEN 1 ELSE Abs(vectors[i])
        IN vectors[i] \div norm]

\* build_chunk_mapping: row i describes chunk i.  The entry keeps the
\* chunk's text beside its id, to name the chunk it describes.
build_chunk_mapping(chunk_list) ==
    [i \in 1..Len(chunk_list) |->
        [chunk_id |-> chunk_list[i].chunk_id, text |-> chunk_list[i].text]]

(***************************************************************************)
(* The index build: build_index.main, with get_or_compute_embeddings, as a *)
(* sequence of steps.  A run can be cut short at any step (process crash); *)
(* the file writes it made so far stay.                                    *)
(***************************************************************************)
CacheIdle ==
    /\ npy = [c \in ChunkIds |-> NoFile]
    /\ meta = [c \in ChunkIds |-> NoMeta]
    /\ chunks = <<>> /\ cpc = "idle" /\ idx = 1
    /\ embeddings_list = <<>> /\ texts_to_embed = <<>> /\ indices_to_embed = <<>>
    /\ stats = [total |-> 0, cached |-> 0, computed |-> 0]
    /\ new_embeddings = <<>> /\ result = <<>>
    /\ provider_calls = 0 /\ runs = 0 /\ repeat = FALSE
    /\ index_file = NoIndex /\ mapping_file = NoMapping

\* The process is gone: its local state is gone with it.
LocalsGone ==
    /\ chunks' = <<>> /\ idx' = 1
    /\ embeddings_list' = <<>> /\ texts_to_embed' = <<>> /\ indices_to_embed' = <<>>
    /\ stats' = [total |-> 0, cached |-> 0, computed |-> 0]
    /\ new_embeddings' = <<>> /\ result' = <<>>
    /\ provider_calls' = 0 /\ repeat' = FALSE

InRun == cpc \in {"check", "embed", "save_npy", "save_meta", "finish", "done",
                  "write_mapping"}

\* main loads the chunk store, exits when it holds no chunk, and otherwise
\* enters get_or_compute_embeddings.
ResolveStart ==
    /\ cpc \in {"idle", "built", "exited", "failed", "crashed"}
    /\ runs < MaxRuns
    /\ \E cl \in ChunkLists :
          /\ chunks' = cl
          /\ repeat' = (cpc = "built" /\ cl = chunks)
          /\ stats' = [total |-> Len(cl), cached |-> 0, computed |-> 0]
          /\ cpc' = IF cl = <<>> THEN "exited" ELSE "check"
    /\ runs' = runs + 1
    /\ idx' = 1
    /\ embeddings_list' = <<>> /\ texts_to_embed' = <<>> /\ indices_to_embed' = <<>>
    /\ new_embeddings' = <<>> /\ result' = <<>>
    /\ provider_calls' = 0
    /\ UNCHANGED <<notCache, index_file, mapping_file, npy, meta>>

\* Mutant: the text of a hit is queued for embedding as well.
QueueMiss_Always(queue, hit, x) == Append(queue, x)

\* The else branch of the cache check: a miss is queued, a hit is not.
QueueMiss(queue, hit, x) == IF hit THEN queue ELSE Append(queue, x)

\* One iteration of "for idx, chunk in enumerate(chunks)".
CheckChunk ==
    /\ cpc = "check"
    /\ LET chunk == chunks[idx]
           r == load_cached_embedding(chunk.chunk_id, chunk.text)
           hit == r.valid /\ r.embedding # None
       IN
       /\ embeddings_list' = Append(embeddings_list, IF hit THEN r.embedding ELSE None)
       /\ stats' = IF hit THEN [stats EXCEPT !.cached = @ + 1] ELSE stats
       /\ texts_to_embed' = QueueMiss(texts_to_embed, hit, chunk.text)
       /\ indices_to_embed' = QueueMiss(indices_to_embed, hit, idx)
       /\ IF idx < Len(chunks)
          THEN idx' = idx + 1 /\ cpc' = "check"
          ELSE idx' = 1 /\ cpc' = IF texts_to_embed' # <<>> THEN "embed" ELSE "finish"
    /\ UNCHANGED <<notCache, index_file, mapping_file, npy, meta, chunks, new_embeddings, result, provider_calls,
                   runs, repeat>>

\* new_embeddings = embed_function(texts_to_embed) returns.
EmbedReturn ==
    /\ cpc = "embed"
    /\ new_embeddings' = [k \in 1..Len(texts_to_embed) |-> EmbedOf(texts_to_embed[k])]
    /\ stats' = [stats EXCEPT !.computed = Len(texts_to_embed)]
    /\ provider_calls' = provider_calls + 1
    /\ idx' = 1
    /\ cpc' = "save_npy"
    /\ UNCHANGED <<notCache, index_file, mapping_file, npy, meta, chunks, embeddings_list, texts_to_embed,
                   indices_to_embed, result, runs, repeat>>

\* Mutant: the vectors of the batches embedded before the failing one are
\* saved.
CacheOnRaise_SavesEmbedded(files, chunk_list, embedded) ==
    [c \in ChunkIds |->
        IF \E k \in 1..Len(embedded) : chunk_list[embedded[k]].chunk_id = c
        THEN LET k == CHOOSE k \in 1..Len(embedded) : chunk_list[embedded[k]].chunk_id = c
             IN SavedNpy(EmbedOf(chunk_list[embedded[k]].text))
        ELSE files[c]]

\* The vector artifacts after embed_function raised, embedded being the
\* positions of the misses the provider had embedded by then: the loop that
\* saves runs only after embed_function has returned.
CacheOnRaise(files, chunk_list, embedded) == files

\* embed_function(texts_to_embed) raises, after the provider embedded some
\* of the batches or none: the run ends with the exception.
EmbedRaise ==
    /\ cpc = "embed"
    /\ cpc' = "failed"
    /\ \E n \in 0..(Len(indices_to_embed) - 1) :
          npy' = CacheOnRaise(npy, chunks, SubSeq(indices_to_embed, 1, n))
    /\ LocalsGone
    /\ UNCHANGED <<notCache, runs, meta, index_file, mapping_file>>

\* Miss number idx: the reinsertion and the first write of
\* save_embedding_to_cache.
SaveNpy ==
    /\ cpc = "save_npy"
    /\ LET at == indices_to_embed[idx]
           embedding == new_embeddings[idx]
       IN
       /\ embeddings_list' = InsertComputed(embeddings_list, idx, at, embedding)
       /\ npy' = [npy EXCEPT ![chunks[at].chunk_id] = SavedNpy(embedding)]
    /\ cpc' = "save_meta"
    /\ UNCHANGED <<notCache, index_file, mapping_file, meta, chunks, idx, texts_to_embed, indices_to_embed, stats,
                   new_embeddings, result, provider_calls, runs, repeat>>

\* Miss number idx: the second write of save_embedding_to_cache.
SaveMeta ==
    /\ cpc = "save_meta"
    /\ LET chunk == chunks[indices_to_embed[idx]] IN
       meta' = [meta EXCEPT ![chunk.chunk_id] = SavedMeta(chunk.text)]
    /\ IF idx < Len(indices_to_embed)
       THEN idx' = idx + 1 /\ cpc' = "save_npy"
       ELSE idx' = 1 /\ cpc' = "finish"
    /\ UNCHANGED <<notCache, index_file, mapping_file, npy, chunks, embeddings_list, texts_to_embed, indices_to_embed,
                   stats, new_embeddings, result, provider_calls, runs, repeat>>

\* np.array(embeddings_list) and return.
ResolveReturn ==
    /\ cpc = "finish"
    /\ result' = [k \in 1..Len(embeddings_list) |-> embeddings_list[k].value]
    /\ cpc' = "done"
    /\ UNCHANGED <<notCache, index_file, mapping_file, npy, meta, chunks, idx, embeddings_list, texts_to_embed,
                   indices_to_embed, stats, new_embeddings, provider_calls, runs,
                   repeat>>

\* build_faiss_index: normalize, add the rows, write the index artifact.
WriteIndex ==
    /\ cpc = "done"
    /\ index_file' = IndexOf(normalize_vectors(result))
    /\ cpc' = "write_mapping"
    /\ UNCHANGED <<notCache, mapping_file, npy, meta, chunks, idx, embeddings_list,
                   texts_to_embed, indices_to_embed, stats, new_embeddings, result,
                   provider_calls, runs, repeat>>

\* build_chunk_mapping: one entry per chunk, write the mapping artifact; main
\* returns and only the chunk list and the counts are remembered.
WriteMapping ==
    /\ cpc = "write_mapping"
    /\ mapping_file' = MappingOf(build_chunk_mapping(chunks))
    /\ cpc' = "built"
    /\ idx' = 1
    /\ embeddings_list' = <<>> /\ texts_to_embed' = <<>> /\ indices_to_embed' = <<>>
    /\ new_embeddings' = <<>> /\ result' = <<>>
    /\ UNCHANGED <<notCache, index_file, npy, meta, chunks, stats, provider_calls,
                   runs, repeat>>

\* The process stops between two steps.
Crash ==
    /\ InRun
    /\ cpc' = "crashed"
    /\ LocalsGone
    /\ UNCHANGED <<notCache, runs, npy, meta, index_file, mapping_file>>

\* The process stops inside np.save: the vector artifact is left truncated.
CrashInNpyWrite ==
    /\ cpc = "save_npy"
    /\ npy' = [npy EXCEPT ![chunks[indices_to_embed[idx]].chunk_id] = CorruptNpy]
    /\ cpc' = "crashed"
    /\ LocalsGone
    /\ UNCHANGED <<notCache, runs, meta, index_file, mapping_file>>

\* The process stops inside write_text: the digest artifact is left truncated.
CrashInMetaWrite ==
    /\ cpc = "save_meta"
    /\ LET chunk == chunks[indices_to_embed[idx]] IN
       \E part \in ProperPrefixes(get_text_hash(chunk.text)) :
          meta' = [meta EXCEPT ![chunk.chunk_id] = MetaOf(part)]
    /\ cpc' = "crashed"
    /\ LocalsGone
    /\ UNCHANGED <<notCache, runs, npy, index_file, mapping_file>>

NextBuild ==
    \/ ResolveStart
    \/ CheckChunk
    \/ EmbedReturn
    \/ EmbedRaise
    \/ SaveNpy
    \/ SaveMeta
    \/ ResolveReturn
    \/ WriteIndex
    \/ WriteMapping
    \/ Crash
    \/ CrashInNpyWrite
    \/ CrashInMetaWrite


(***************************************************************************)
(* Embedding provider call: embed_texts as a sequence of steps.  Each      *)
(* provider request succeeds, fails with a rate-limit signal ("429" or     *)
(* "quota" in the message) or fails with another error.                    *)
(***************************************************************************)
BatchSizes == {1, 2}
RetryBounds == {0, 1, 3}

TextLists == UNION {[1..n -> Texts] : n \in 0..MaxTexts}

\* texts[i:i + batch_size], i counted from 0
Batch(ts, i, size) ==
    SubSeq(ts, i + 1, IF i + size < Len(ts) THEN i + size ELSE Len(ts))

\* wait_time = 2 ** attempt, in seconds
BackoffWait(a) == 2 ^ a

\* Mutant: the check for the last attempt is off by one.
LastAttempt_OffByOne(a, retries) == a = retries

\* attempt == max_retries - 1
LastAttempt(a, retries) == a = retries - 1

EmbedIdle ==
    /\ texts = <<>> /\ batch_size = 1 /\ max_retries = 0
    /\ epc = "off" /\ batch_at = 0 /\ attempt = 0
    /\ all_embeddings = <<>> /\ requests = <<>> /\ sleeps = <<>>
    /\ embeddings_array = <<>>

EmbedInit ==
    /\ texts \in TextLists
    /\ batch_size \in BatchSizes
    /\ max_retries \in RetryBounds
    /\ epc = "batch" /\ batch_at = 0 /\ attempt = 0
    /\ all_embeddings = <<>> /\ requests = <<>> /\ sleeps = <<>>
    /\ embeddings_array = <<>>

\* The end of one iteration of "for i in range(0, len(texts), batch_size)":
\* the delay between batches and the move to the next batch.
NextBatch ==
    /\ sleeps' = IF batch_at + batch_size < Len(texts) THEN Append(sleeps, 1) ELSE sleeps
    /\ batch_at' = batch_at + batch_size
    /\ attempt' = 0
    /\ epc' = "batch"

\* The provider answers the request for the current batch.
CallOk ==
    /\ epc = "batch" /\ batch_at < Len(texts) /\ attempt < max_retries
    /\ LET batch == Batch(texts, batch_at, batch_size) IN
       /\ requests' = Append(requests, [start |-> batch_at, batch |-> batch,
                                         outcome |-> "ok", wait |-> 0])
       /\ all_embeddings' = all_embeddings \o [k \in 1..Len(batch) |-> EmbedOf(batch[k])]
    /\ NextBatch
    /\ UNCHANGED <<notEmbed, texts, batch_size, max_retries, embeddings_array>>

\* The request fails with a rate-limit signal: wait, then retry or give up.
CallRateLimited ==
    /\ epc = "batch" /\ batch_at < Len(texts) /\ attempt < max_retries
    /\ requests' = Append(requests,
                          [start |-> batch_at,
                           batch |-> Batch(texts, batch_at, batch_size),
                           outcome |-> "rate_limit", wait |-> BackoffWait(attempt)])
    /\ sleeps' = Append(sleeps, 10 * BackoffWait(attempt))
    /\ IF LastAttempt(attempt, max_retries)
       THEN epc' = "raised" /\ attempt' = attempt
       ELSE epc' = "batch" /\ attempt' = attempt + 1
    /\ UNCHANGED <<notEmbed, texts, batch_size, max_retries, batch_at,
                   all_embeddings, embeddings_array>>

\* The request fails with another error: raise at once.
CallOtherError ==
    /\ epc = "batch" /\ batch_at < Len(texts) /\ attempt < max_retries
    /\ requests' = Append(requests,
                          [start |-> batch_at,
                           batch |-> Batch(texts, batch_at, batch_size),
                           outcome |-> "other", wait |-> 0])
    /\ epc' = "raised"
    /\ UNCHANGED <<notEmbed, texts, batch_size, max_retries, batch_at, attempt,
                   all_embeddings, sleeps, embeddings_array>>

\* "for attempt in range(max_retries)" is exhausted without break or raise.
AttemptsExhausted ==
    /\ epc = "batch" /\ batch_at < Len(texts) /\ attempt >= max_retries
    /\ NextBatch
    /\ UNCHANGED <<notEmbed, texts, batch_size, max_retries, all_embeddings,
                   requests, embeddings_array>>

\* All batches done: convert and return.
EmbedFinish ==
    /\ epc = "batch" /\ batch_at >= Len(texts)
    /\ embeddings_array' = <<all_embeddings>>
    /\ epc' = "returned"
    /\ UNCHANGED <<notEmbed, texts, batch_size, max_retries, batch_at, attempt,
                   all_embeddings, requests, sleeps>>

NextEmbed ==
    \/ CallOk
    \/ CallRateLimited
    \/ CallOtherError
    \/ AttemptsExhausted
    \/ EmbedFinish

(***************************************************************************)
(* Question post-pass: the batch generation of study questions at the end  *)
(* of generate_multi_exam_plan, with generate_study_question, as a         *)
(* sequence of steps over the packed days.                                 *)
(***************************************************************************)
Objectives == {"o1", "o2"}

\* A block as day packing leaves it: no question yet.
PackedBlock(o) ==
    [chapter |-> 1, objective |-> o, study_question |-> "",
     time_estimate_minutes |-> 45]

\* Days of one or two blocks each, holding n blocks in all, from date d on.
RECURSIVE PackedDays(_, _)
PackedDays(n, d) ==
    IF n = 0 THEN {<<>>}
    ELSE UNION { { <<[date |-> d, blocks |-> bs, total_minutes |-> 45 * Len(bs)]>> \o rest
                   : rest \in PackedDays(n - Len(bs), d + 1) }
                 : bs \in UNION { [1..m -> {PackedBlock(o) : o \in Objectives}]
                                  : m \in 1..(IF n >= 2 THEN 2 ELSE 1) } }

\* all_blocks = [block for day in days for block in day.blocks]
AllBlocks(ds) == Flatten([d \in 1..Len(ds) |-> ds[d].blocks])

\* The day and the position in it of block number i of all_blocks.
BlockAt(ds, i) ==
    CHOOSE dj \in {<<d, j>> : d \in 1..Len(ds), j \in 1..2} :
        /\ dj[2] <= Len(ds[dj[1]].blocks)
        /\ Len(AllBlocks(SubSeq(ds, 1, dj[1] - 1))) + dj[2] = i

\* block.study_question = q, seen through the day that holds the block
SetQuestion(ds, i, q) ==
    LET dj == BlockAt(ds, i) IN
    [ds EXCEPT ![dj[1]].blocks[dj[2]].study_question = q]

\* generate_study_question after the provider answered with this text: strip,
\* drop surrounding quotes, end with a question mark.
QuestionFrom(text) ==
    CASE text = ""          -> "?"
      [] text = "Why"       -> "Why?"
      [] text = "\"Why?\"" -> "Why?"
      [] OTHER              -> text

QuestionsIdle ==
    /\ q_days = <<>> /\ generate_questions = FALSE /\ api_key = FALSE
    /\ topic_chunks = [o \in Objectives |-> FALSE]
    /\ qpc = "off" /\ q_i = 1 /\ q_outcomes = <<>>
    /\ questions_generated = 0 /\ q_plan = <<>>

QuestionsInit ==
    /\ \E n \in 0..MaxBlocks : q_days \in PackedDays(n, 0)
    /\ generate_questions \in BOOLEAN
    /\ api_key \in BOOLEAN
    /\ topic_chunks \in [Objectives -> BOOLEAN]
    /\ qpc = "questions" /\ q_i = 1 /\ q_outcomes = <<>>
    /\ questions_generated = 0 /\ q_plan = <<>>

\* Create the plan, calculate its totals and return it.
ReturnPlan(ds) ==
    /\ q_plan' = <<calculate_totals(ds)>>
    /\ qpc' = "returned"

\* generate_questions is off: the post-pass is skipped.
QuestionsSkipped ==
    /\ qpc = "questions" /\ ~generate_questions
    /\ ReturnPlan(q_days)
    /\ UNCHANGED <<notQuestions, q_days, generate_questions, api_key, topic_chunks,
                   q_i, q_outcomes, questions_generated>>

\* Is block number q_i the block the loop is at, and has its topic chunks?
AtBlock(withChunks) ==
    /\ qpc = "questions" /\ generate_questions
    /\ q_i <= Len(AllBlocks(q_days))
    /\ topic_chunks[AllBlocks(q_days)[q_i].objective] = withChunks

\* The step to the next block; after the last block the plan is returned.
NextBlock(ds) ==
    /\ q_i' = q_i + 1
    /\ IF q_i = Len(AllBlocks(q_days))
       THEN ReturnPlan(ds)
       ELSE qpc' = "questions" /\ q_plan' = q_plan

\* The topic has no chunk excerpts: no question is asked for.
QuestionNoChunks ==
    /\ AtBlock(FALSE)
    /\ q_outcomes' = Append(q_outcomes, "no_chunks")
    /\ NextBlock(q_days)
    /\ UNCHANGED <<notQuestions, q_days, generate_questions, api_key, topic_chunks,
                   questions_generated>>

\* get_genai_client finds no key: its ValueError leaves generate_study_question
\* and generate_multi_exam_plan.
QuestionNoCredentials ==
    /\ AtBlock(TRUE) /\ ~api_key
    /\ q_outcomes' = Append(q_outcomes, "no_credentials")
    /\ qpc' = "raised"
    /\ UNCHANGED <<notQuestions, q_days, generate_questions, api_key, topic_chunks,
                   q_i, questions_generated, q_plan>>

\* The provider answers with a text, which may be empty.
QuestionAnswered ==
    /\ AtBlock(TRUE) /\ api_key
    /\ \E text \in {"", "Why", "Why?", "\"Why?\""} :
          /\ q_days' = SetQuestion(q_days, q_i, QuestionFrom(text))
          /\ q_outcomes' = Append(q_outcomes, IF text = "" THEN "empty" ELSE "text")
          /\ NextBlock(q_days')
    /\ questions_generated' = questions_generated + 1
    /\ UNCHANGED <<notQuestions, generate_questions, api_key, topic_chunks>>

\* The provider call raises, or its response has no text: caught, the
\* question is "".
QuestionProviderError ==
    /\ AtBlock(TRUE) /\ api_key
    /\ q_days' = SetQuestion(q_days, q_i, "")
    /\ q_outcomes' = Append(q_outcomes, "error")
    /\ NextBlock(q_days')
    /\ UNCHANGED <<notQuestions, generate_questions, api_key, topic_chunks,
                   questions_generated>>

\* There is no block at all: the loop body never runs.
QuestionsNoBlocks ==
    /\ qpc = "questions" /\ generate_questions /\ AllBlocks(q_days) = <<>>
    /\ ReturnPlan(q_days)
    /\ UNCHANGED <<notQuestions, q_days, generate_questions, api_key, topic_chunks,
                   q_i, q_outcomes, questions_generated>>

NextQuestions ==
    \/ QuestionsSkipped
    \/ QuestionNoChunks
    \/ QuestionNoCredentials
    \/ QuestionAnswered
    \/ QuestionProviderError
    \/ QuestionsNoBlocks

(***************************************************************************)
(* Retrieval: search_index over an index and its mapping.  Index rows are  *)
(* numbered from 0; the query is fixed and every row carries its score     *)
(* with it.                                                                *)
(***************************************************************************)
\* An index row with its mapping entry: score, and the chunk metadata
\* (chapter_number 0 stands for none) or no entry at all.
RowKinds ==
    { [score |-> 70, mapped |-> TRUE,  chapter_number |-> 1, file_id |-> "f1"],
      [score |-> 70, mapped |-> TRUE,  chapter_number |-> 2, file_id |-> "f1"],
      [score |-> 50, mapped |-> TRUE,  chapter_number |-> 1, file_id |-> "f1"],
      [score |-> 80, mapped |-> TRUE,  chapter_number |-> 1, file_id |-> "f2"],
      [score |-> 70, mapped |-> FALSE, chapter_number |-> 0, file_id |-> ""] }

RowLists == UNION {[1..n -> RowKinds] : n \in 0..MaxRows}

\* A filters dict: the keys it holds and their values.  A chapter filter is
\* one value or a list of values.
Filters(keys, chapter, file, min) ==
    [keys |-> keys, chapter_number |-> chapter, file_id |-> file, min_score |-> min]
OneChapter(c) == [is_list |-> FALSE, values |-> {c}]
ChapterList(cs) == [is_list |-> TRUE, values |-> cs]
NoFilters == Filters({}, OneChapter(0), "", 0)

FilterSets ==
    { NoFilters,
      Filters({"min_score"}, OneChapter(0), "", 60),
      Filters({"chapter_number"}, OneChapter(1), "", 0),
      Filters({"chapter_number"}, ChapterList({2}), "", 0),
      Filters({"file_id"}, OneChapter(0), "f1", 0),
      Filters({"chapter_number", "min_score"}, OneChapter(1), "", 60),
      Filters({"chapter_number", "file_id", "min_score"}, ChapterList({1, 2}), "f1", 60) }

\* Mutant: with filters twice top_k candidates are requested.
SearchK_Twice(k, f) == IF f.keys # {} THEN k * 2 ELSE k

\* search_k = top_k * 3 if filters else top_k
SearchK(k, f) == IF f.keys # {} THEN k * 3 ELSE k

\* The orders in which index.search can return the given rows: descending
\* score, rows of equal score in any order.
RECURSIVE Descending(_, _)
Descending(ix, rows) ==
    IF rows = {} THEN {<<>>}
    ELSE LET best == {r \in rows : \A q \in rows : ix[r + 1] >= ix[q + 1]}
         IN UNION { {<<r>> \o rest : rest \in Descending(ix, rows \ {r})} : r \in best }

\* index.search(query, k): k (score, row) candidates, filled up with row -1.
IndexSearch(ix, k) ==
    { [i \in 1..k |-> IF i <= Len(order)
                      THEN [row |-> order[i], score |-> ix[order[i] + 1]]
                      ELSE [row |-> -1, score |-> -1]]
      : order \in Descending(ix, 0..(Len(ix) - 1)) }

\* Mutant: the score filter is not applied.
Rejected_NoScoreFilter(c, map, f) ==
    \/ c.row = -1
    \/ ~map[c.row + 1].mapped
    \/ /\ "chapter_number" \in f.keys
       /\ map[c.row + 1].chapter_number \notin f.chapter_number.values
    \/ /\ "file_id" \in f.keys
       /\ map[c.row + 1].file_id # f.file_id

\* The "continue" conditions of the result loop for one candidate.
Rejected(c, map, f) ==
    \/ c.row = -1
    \/ ~map[c.row + 1].mapped
    \/ /\ f.keys # {}
       /\ \/ /\ "chapter_number" \in f.keys
             /\ IF f.chapter_number.is_list
                THEN map[c.row + 1].chapter_number \notin f.chapter_number.values
                ELSE \A v \in f.chapter_number.values : map[c.row + 1].chapter_number # v
          \/ /\ "file_id" \in f.keys
             /\ map[c.row + 1].file_id # f.file_id
          \/ /\ "min_score" \in f.keys
             /\ c.score < f.min_score

ResultOf(c, map) ==
    [chunk_id |-> c.row, score |-> c.score,
     file_id |-> map[c.row + 1].file_id,
     chapter_number |-> map[c.row + 1].chapter_number]

\* if len(results) >= top_k: break
Enough(rs, k) == Len(rs) >= k

\* The result loop of search_index over the candidates.
RECURSIVE ResultLoop(_, _, _, _, _)
ResultLoop(cands, map, k, f, rs) ==
    IF cands = <<>> THEN rs
    ELSE IF Rejected(Head(cands), map, f)
         THEN ResultLoop(Tail(cands), map, k, f, rs)
         ELSE LET rs2 == Append(rs, ResultOf(Head(cands), map)) IN
              IF Enough(rs2, k) THEN rs2
              ELSE ResultLoop(Tail(cands), map, k, f, rs2)

SearchIdle ==
    /\ index = <<>> /\ mapping = <<>> /\ top_k = 1 /\ filters = NoFilters
    /\ ranked = <<>> /\ results = <<>> /\ spc = "off"
    /\ use_chapter_filter = FALSE /\ chapter_number = 0 /\ tpc = "off"
    /\ searches = <<>> /\ enriched = <<>>
    /\ min_score = 0 /\ query_requests = <<>>

SearchInit ==
    /\ \E rows \in RowLists :
          /\ index = [i \in 1..Len(rows) |-> rows[i].score]
          /\ mapping = [i \in 1..Len(rows) |->
                           [mapped |-> rows[i].mapped,
                            chapter_number |-> rows[i].chapter_number,
                            file_id |-> rows[i].file_id]]
    /\ top_k \in {1, 2}
    /\ filters \in FilterSets
    /\ ranked = <<>> /\ results = <<>> /\ spc = "search"
    /\ use_chapter_filter = FALSE /\ chapter_number = 0 /\ tpc = "off"
    /\ searches = <<>> /\ enriched = <<>>
    /\ min_score = 0 /\ query_requests = <<>>

\* search_index up to the return of index.search.
SearchCandidates ==
    /\ spc = "search"
    /\ ranked' \in IndexSearch(index, SearchK(top_k, filters))
    /\ spc' = "filter"
    /\ UNCHANGED <<notSearch, min_score, query_requests, index, mapping, top_k, filters, results,
                   use_chapter_filter, chapter_number, tpc, searches, enriched>>

\* search_index from the result loop to the return.
SearchFilter ==
    /\ spc = "filter"
    /\ results' = ResultLoop(ranked, mapping, top_k, filters, <<>>)
    /\ spc' = "returned"
    /\ UNCHANGED <<notSearch, min_score, query_requests, index, mapping, top_k, filters, ranked,
                   use_chapter_filter, chapter_number, tpc, searches, enriched>>

NextSearch ==
    \/ SearchCandidates
    \/ SearchFilter

(***************************************************************************)
(* Enrichment of one topic: enrich_topic as the state machine QUERY,       *)
(* FILTERED_SEARCH, UNFILTERED_SEARCH, EVIDENCE_EXTRACTION, DONE or        *)
(* NO_EVIDENCE.  A search is one call of search_index.                     *)
(***************************************************************************)
fallback_threshold == 3

\* The min_score arguments tried: the default 0.6 and a lower --min-score.
MinScores == {50, 60}

\* Mutant: the fallback does not depend on the number of hits.
NeedsFallback_Always(ucf, rs) == ucf

\* if use_chapter_filter and len(results) < fallback_threshold
NeedsFallback(ucf, rs) == ucf /\ Len(rs) < fallback_threshold

\* filters = {"min_score": min_score}, with the chapter when it is used
TopicFilters(ucf, chapter) ==
    IF ucf /\ chapter # 0
    THEN Filters({"min_score", "chapter_number"}, OneChapter(chapter), "", min_score)
    ELSE Filters({"min_score"}, OneChapter(0), "", min_score)

\* filters.pop("chapter_number", None)
WithoutChapter(f) ==
    Filters(f.keys \ {"chapter_number"}, OneChapter(0), f.file_id, f.min_score)

\* All result lists one call of search_index can return.
search_index(ix, map, k, f) ==
    { ResultLoop(cands, map, k, f, <<>>) : cands \in IndexSearch(ix, SearchK(k, f)) }

\* sorted(set(pages)): the distinct pages in ascending order.
RECURSIVE SortedSet(_)
SortedSet(S) ==
    IF S = {} THEN <<>>
    ELSE LET m == CHOOSE x \in S : \A y \in S : x <= y
         IN <<m>> \o SortedSet(S \ {m})

\* The for loop of consolidate_page_ranges from the i-th sorted page on,
\* with the open range [start, end].
RECURSIVE ConsolidateLoop(_, _, _, _, _, _)
ConsolidateLoop(ps, i, start, end, ranges, gap_tolerance) ==
    IF i > Len(ps) THEN Append(ranges, <<start, end>>)
    ELSE IF ps[i] - end <= gap_tolerance
         THEN ConsolidateLoop(ps, i + 1, start, ps[i], ranges, gap_tolerance)
         ELSE ConsolidateLoop(ps, i + 1, ps[i], ps[i],
                              Append(ranges, <<start, end>>), gap_tolerance)

\* Mutant: a page extends the range only when the gap is below the tolerance.
consolidate_page_ranges_Strict(pages, gap_tolerance) ==
    IF pages = <<>> THEN <<>>
    ELSE LET ps == SortedSet(Range(pages))
         IN ConsolidateLoop(ps, 2, ps[1], ps[1], <<>>, gap_tolerance - 1)

consolidate_page_ranges(pages, gap_tolerance) ==
    IF pages = <<>> THEN <<>>
    ELSE LET ps == SortedSet(Range(pages))
         IN ConsolidateLoop(ps, 2, ps[1], ps[1], <<>>, gap_tolerance)

\* The pages of the chunk store's chunk with this id: two pages per chunk,
\* the chunks of neighbouring rows one page apart.
ChunkPages(chunk_id) == <<3 * chunk_id + 1, 3 * chunk_id + 2>>

\* The enrichment returned when no chunk was found.
EmptyEnrichment ==
    [chunks_retrieved |-> 0, confidence_score |-> 0, found |-> FALSE,
     page_ranges |-> <<>>,
     notes |-> "No relevant chunks found above threshold"]

\* Mutant: the confidence is the score of the best hit.
Enrichment_TopScore(rs) ==
    LET avg_score == rs[1].score IN
    [chunks_retrieved |-> Len(rs),
     confidence_score |-> avg_score,
     found |-> TRUE,
     page_ranges |-> consolidate_page_ranges(
                         Flatten([k \in 1..Len(rs) |-> ChunkPages(rs[k].chunk_id)]), 3),
     notes |-> IF avg_score < 60
               THEN "Low confidence: textbook may not align well with this objective"
               ELSE ""]

\* Mutant: a mean of exactly 0.6 is reported as low confidence too.
Enrichment_LowAtThreshold(rs) ==
    LET avg_score == SumSeq([k \in 1..Len(rs) |-> rs[k].score]) \div Len(rs) IN
    [chunks_retrieved |-> Len(rs),
     confidence_score |-> avg_score,
     found |-> TRUE,
     page_ranges |-> consolidate_page_ranges(
                         Flatten([k \in 1..Len(rs) |-> ChunkPages(rs[k].chunk_id)]), 3),
     notes |-> IF avg_score <= 60
               THEN "Low confidence: textbook may not align well with this objective"
               ELSE ""]

\* The enrichment built from the results; confidence is the mean score,
\* kept in whole percent (the thresholds it is compared with are whole).
Enrichment(rs) ==
    LET avg_score == SumSeq([k \in 1..Len(rs) |-> rs[k].score]) \div Len(rs) IN
    [chunks_retrieved |-> Len(rs),
     confidence_score |-> avg_score,
     found |-> TRUE,
     page_ranges |-> consolidate_page_ranges(
                         Flatten([k \in 1..Len(rs) |-> ChunkPages(rs[k].chunk_id)]), 3),
     notes |-> IF avg_score < 60
               THEN "Low confidence: textbook may not align well with this objective"
               ELSE ""]

EnrichInit ==
    /\ \E rows \in RowLists :
          /\ index = [i \in 1..Len(rows) |-> rows[i].score]
          /\ mapping = [i \in 1..Len(rows) |->
                           [mapped |-> rows[i].mapped,
                            chapter_number |-> rows[i].chapter_number,
                            file_id |-> rows[i].file_id]]
    /\ top_k \in {2, 4}
    /\ use_chapter_filter \in BOOLEAN
    /\ chapter_number \in {0, 1, 2}
    /\ min_score \in MinScores
    /\ filters = NoFilters
    /\ ranked = <<>> /\ results = <<>> /\ spc = "off"
    /\ tpc = "QUERY" /\ searches = <<>> /\ enriched = <<>>
    /\ query_requests = <<>>

\* Where the machine goes when the last search has been made.
AfterSearches(rs) == IF rs = <<>> THEN "NO_EVIDENCE" ELSE "EVIDENCE_EXTRACTION"

\* Embed the query with one provider request and build the filters.
EmbedQuery ==
    /\ tpc = "QUERY"
    /\ query_requests' = <<"ok">>
    /\ filters' = TopicFilters(use_chapter_filter, chapter_number)
    /\ tpc' = "FILTERED_SEARCH"
    /\ UNCHANGED <<notSearch, min_score, index, mapping, top_k, ranked, results, spc,
                   use_chapter_filter, chapter_number, searches, enriched>>

\* embed_query raises, for want of credentials before any request or on
\* the error of its one request (a rate limit or another error):
\* enrich_topic raises.
EmbedQueryRaise ==
    /\ tpc = "QUERY"
    /\ query_requests' \in {<<>>, <<"rate_limit">>, <<"error">>}
    /\ tpc' = "RAISED"
    /\ UNCHANGED <<notSearch, min_score, index, mapping, top_k, filters, ranked, results, spc,
                   use_chapter_filter, chapter_number, searches, enriched>>

\* The first search; an empty result without fallback returns the empty
\* enrichment.
FilteredSearch ==
    /\ tpc = "FILTERED_SEARCH"
    /\ results' \in search_index(index, mapping, top_k, filters)
    /\ searches' = Append(searches, [filters |-> filters, hits |-> Len(results')])
    /\ tpc' = IF NeedsFallback(use_chapter_filter, results')
              THEN "UNFILTERED_SEARCH" ELSE AfterSearches(results')
    /\ enriched' = IF tpc' = "NO_EVIDENCE" THEN <<EmptyEnrichment>> ELSE enriched
    /\ UNCHANGED <<notSearch, min_score, query_requests, index, mapping, top_k, filters, ranked, spc,
                   use_chapter_filter, chapter_number>>

\* The fallback search, without the chapter filter.
UnfilteredSearch ==
    /\ tpc = "UNFILTERED_SEARCH"
    /\ filters' = WithoutChapter(filters)
    /\ results' \in search_index(index, mapping, top_k, filters')
    /\ searches' = Append(searches, [filters |-> filters', hits |-> Len(results')])
    /\ tpc' = AfterSearches(results')
    /\ enriched' = IF tpc' = "NO_EVIDENCE" THEN <<EmptyEnrichment>> ELSE enriched
    /\ UNCHANGED <<notSearch, min_score, query_requests, index, mapping, top_k, ranked, spc,
                   use_chapter_filter, chapter_number>>

\* Build the enriched topic from the results and return it.
ExtractEvidence ==
    /\ tpc = "EVIDENCE_EXTRACTION"
    /\ enriched' = <<Enrichment(results)>>
    /\ tpc' = "DONE"
    /\ UNCHANGED <<notSearch, min_score, query_requests, index, mapping, top_k, filters, ranked, results, spc,
                   use_chapter_filter, chapter_number, searches>>

NextEnrich ==
    \/ EmbedQuery
    \/ EmbedQueryRaise
    \/ FilteredSearch
    \/ UnfilteredSearch
    \/ ExtractEvidence

(***************************************************************************)
(* Pure calculations: one call of a function on arguments drawn from       *)
(* bounded sets.                                                           *)
(***************************************************************************)
\* The page lists tried: every list of at most MaxPages of these pages, in
\* any order and with repetitions, and the two documented examples.
PageLists ==
    UNION {[1..n -> {1, 2, 4, 5, 9}] : n \in 0..MaxPages}
        \cup {<<1, 2, 3, 7, 8, 15>>, <<5, 5, 6>>}

avg_minutes_per_topic == 45

\* total_hours_available / total_hours_needed in IEEE-754 doubles.  Both
\* hour values are minutes / 60 rounded to a double, and for these
\* (available, needed) minutes the quotient of the two comes out as
\* 0.8999999999999999, below the exact ratio 9/10.  On the other arguments
\* tried a comparison of the quotient with 1.5, 0.9 or 0.5 agrees with the
\* comparison of the exact ratio.
RatioRoundsBelow(available, needed) ==
    <<available, needed>> \in {<<243, 270>>, <<486, 540>>}

\* ratio >= n / d, for ratio as analyze_study_load computes it.
RatioAtLeast(available, needed, n, d) ==
    IF needed > 0
    THEN \/ available * d > n * needed
         \/ available * d = n * needed /\ ~RatioRoundsBelow(available, needed)
    ELSE d >= n

\* analyze_study_load on the topic counts of the coverages it loads.
\* int() truncates; coverage_percentage is kept in tenths of a percent,
\* as round(.., 1) returns it.
analyze_study_load(topic_counts, start, end, per_day) ==
    LET total_topics == SumSeq(topic_counts)
        needed == total_topics * avg_minutes_per_topic
        days_available == (end - start) + 1
        weekdays_available ==
            IF days_available >= 0 THEN (days_available * 5) \div 7
            ELSE 0 - (((0 - days_available) * 5) \div 7)
        available == weekdays_available * per_day
        band == IF RatioAtLeast(available, needed, 3, 2) THEN 1
                ELSE IF RatioAtLeast(available, needed, 9, 10) THEN 2
                ELSE IF RatioAtLeast(available, needed, 1, 2) THEN 3 ELSE 4
    IN [total_topics |-> total_topics,
        days_available |-> weekdays_available,
        feasibility |-> <<"comfortable", "realistic", "tight", "impossible">>[band],
        recommendation |-> <<"comprehensive", "balanced", "prioritized", "cramming">>[band],
        coverage_percentage |->
            IF needed > 0 /\ available < needed
            THEN (2000 * available + needed) \div (2 * needed)
            ELSE 1000]

\* The tuples an external prioritizer returns here: two for the key
\* (1, "b1"), one of them with 0 minutes, one for (2, "b3"), one that names
\* "b3" under another chapter and one whose objective differs by a blank.
ReturnedTuples ==
    { [chapter |-> 1, objective |-> "b1", priority |-> "high", reason |-> "r1",
       time_estimate_minutes |-> 30],
      [chapter |-> 1, objective |-> "b1", priority |-> "low", reason |-> "r2",
       time_estimate_minutes |-> 0],
      [chapter |-> 2, objective |-> "b3", priority |-> "critical", reason |-> "r3",
       time_estimate_minutes |-> 100],
      [chapter |-> 1, objective |-> "b3", priority |-> "optional", reason |-> "r4",
       time_estimate_minutes |-> 60],
      [chapter |-> 4, objective |-> "b2 ", priority |-> "critical", reason |-> "r5",
       time_estimate_minutes |-> 20] }

\* The tuples of a prioritizer that names a priority outside the enum: a
\* well-formed one for (1, "b1") and one for (2, "b3") with "urgent".
TuplesWithUnknownPriority ==
    { [chapter |-> 1, objective |-> "b1", priority |-> "high", reason |-> "r1",
       time_estimate_minutes |-> 30],
      [chapter |-> 2, objective |-> "b3", priority |-> "urgent", reason |-> "r6",
       time_estimate_minutes |-> 40] }

\* The values of the Priority enum.
PriorityNames == {"critical", "high", "medium", "low", "optional"}

\* Mutant: a tuple matches on the objective text alone.
Matches_ObjectiveOnly(p, topic) == p.objective = topic.bullet

\* p["chapter"] == topic.chapter and p["objective"] == topic.bullet
Matches(p, topic) == p.chapter = topic.chapter /\ p.objective = topic.bullet

\* The entry of result_topics for one topic: next(...) takes the first
\* matching tuple, and None gives the fallback.
PriorityEntry(priorities, topic) ==
    LET ms == {k \in 1..Len(priorities) : Matches(priorities[k], topic)} IN
    IF ms # {}
    THEN LET priority_data == priorities[CHOOSE k \in ms : \A j \in ms : k <= j]
         IN [topic |-> topic, priority |-> priority_data.priority,
             reason |-> priority_data.reason,
             time_estimate |-> priority_data.time_estimate_minutes]
    ELSE [topic |-> topic, priority |-> "medium", reason |-> "Default priority",
          time_estimate |-> 45]

\* result_topics of prioritize_topics, over every topic of every coverage.
prioritize_topics(covs, priorities) ==
    Flatten([i \in 1..Len(covs) |->
                [p \in 1..Len(covs[i]) |-> PriorityEntry(priorities, covs[i][p])]])

\* The lookup map generate_multi_exam_plan builds from result_topics; a
\* later item with the same (chapter, bullet) replaces an earlier one.
LookupMap(result_topics) ==
    LET keys == {<<result_topics[k].topic.chapter, result_topics[k].topic.bullet>> :
                    k \in 1..Len(result_topics)}
        Last(key) == CHOOSE k \in 1..Len(result_topics) :
                        /\ <<result_topics[k].topic.chapter, result_topics[k].topic.bullet>> = key
                        /\ \A j \in (k + 1)..Len(result_topics) :
                              <<result_topics[j].topic.chapter, result_topics[j].topic.bullet>> # key
    IN [key \in keys |->
           [priority |-> result_topics[Last(key)].priority,
            reason |-> result_topics[Last(key)].reason,
            time_estimate |-> result_topics[Last(key)].time_estimate]]

\* The items of result_topics that are entered in the lookup map: the loop
\* stops at the first item whose priority Priority(...) rejects, and the
\* except clause keeps the map as it is at that point.
ConvertedItems(result_topics) ==
    LET bad == {k \in 1..Len(result_topics) :
                   result_topics[k].priority \notin PriorityNames}
    IN IF bad = {} THEN result_topics
       ELSE SubSeq(result_topics, 1, (CHOOSE k \in bad : \A j \in bad : k <= j) - 1)

\* The chunk texts tried, each given by the number of matches of each of the
\* five problem patterns in it.
ChunkTexts ==
    { <<0, 0, 0, 0, 0>>, <<1, 0, 0, 0, 0>>, <<2, 0, 1, 0, 0>>, <<0, 1, 0, 0, 1>> }

\* The matches in the order the three nested loops visit them: by chunk,
\* then by pattern, then by position in the text.
ScanOrder(chunk_texts) ==
    Flatten([c \in 1..Len(chunk_texts) |->
        Flatten([p \in 1..5 |->
            [m \in 1..chunk_texts[c][p] |-> [chunk |-> c, pattern |-> p, match |-> m]]])])

\* The loop body for match i: append, and return as soon as the list has
\* max_problems entries; after the loops, return problems[:max_problems].
RECURSIVE ExtractLoop(_, _, _, _)
ExtractLoop(found, i, problems, max_problems) ==
    IF i > Len(found)
    THEN [problems |-> SubSeq(problems, 1,
                              IF max_problems < Len(problems) THEN max_problems
                              ELSE Len(problems)),
          scanned |-> Len(found)]
    ELSE LET ps == Append(problems, found[i]) IN
         IF Len(ps) >= max_problems
         THEN [problems |-> ps, scanned |-> i]
         ELSE ExtractLoop(found, i + 1, ps, max_problems)

\* The problems returned, and how many matches were visited.
extract_practice_problems(chunk_texts, max_problems) ==
    ExtractLoop(ScanOrder(chunk_texts), 1, <<>>, max_problems)

\* The calls tried.  analyze_study_load gets up to two coverages of 0, 1,
\* 5 or 6 topics, a window of 1 to 21 days and 45, 81 or 90 minutes a day.
Calls ==
    { [fn |-> "consolidate_page_ranges",
       args |-> [pages |-> ps, gap_tolerance |-> g]] : ps \in PageLists, g \in {0, 1, 3} }
    \cup
    { [fn |-> "analyze_study_load",
       args |-> [topic_counts |-> tc, start_date |-> 0, end_date |-> e,
                 minutes_per_day |-> m]] :
        tc \in UNION {[1..n -> {0, 1, 5, 6}] : n \in 0..2}, e \in 0..20, m \in {45, 81, 90} }
    \cup
    { [fn |-> "prioritize_topics", args |-> [coverages |-> covs, priorities |-> ps]] :
        covs \in CoverageLists(1, 2) \cup CoverageLists(2, 2),
        ps \in UNION {[1..n -> ReturnedTuples] : n \in 0..2} }
    \cup
    { [fn |-> "prioritize_topics_unknown_priority",
       args |-> [coverages |-> covs, priorities |-> ps]] :
        covs \in CoverageLists(1, 2) \cup CoverageLists(2, 2),
        ps \in UNION {[1..n -> TuplesWithUnknownPriority] : n \in 0..2} }
    \cup
    { [fn |-> "extract_practice_problems", args |-> [chunks |-> cs, max_problems |-> mx]] :
        cs \in UNION {[1..n -> ChunkTexts] : n \in 0..2}, mx \in 0..4 }

CalcIdle == fn = "off" /\ args = <<>> /\ ret = <<>>

CalcInit ==
    /\ \E c \in Calls : fn = c.fn /\ args = c.args
    /\ ret = <<>>

ConsolidatePages ==
    /\ fn = "consolidate_page_ranges" /\ ret = <<>>
    /\ ret' = <<consolidate_page_ranges(args.pages, args.gap_tolerance)>>
    /\ UNCHANGED <<notCalc, fn, args>>

AnalyzeLoad ==
    /\ fn = "analyze_study_load" /\ ret = <<>>
    /\ ret' = <<analyze_study_load(args.topic_counts, args.start_date, args.end_date,
                                   args.minutes_per_day)>>
    /\ UNCHANGED <<notCalc, fn, args>>

\* Steps 2 and 3 of generate_multi_exam_plan with the external
\* prioritizer: prioritize, build the lookup map, build the work queue.
PrioritizedWorkQueue ==
    /\ fn \in {"prioritize_topics", "prioritize_topics_unknown_priority"} /\ ret = <<>>
    /\ LET map == LookupMap(ConvertedItems(
                      prioritize_topics(args.coverages, args.priorities))) IN
       ret' = <<Flatten([i \in 1..Len(args.coverages) |->
                           [p \in 1..Len(args.coverages[i]) |->
                               WorkItemWith(map, i, p, args.coverages[i][p])]])>>
    /\ UNCHANGED <<notCalc, fn, args>>

ExtractProblems ==
    /\ fn = "extract_practice_problems" /\ ret = <<>>
    /\ ret' = <<extract_practice_problems(args.chunks, args.max_problems)>>
    /\ UNCHANGED <<notCalc, fn, args>>

NextCalc ==
    \/ ConsolidatePages
    \/ AnalyzeLoad
    \/ PrioritizedWorkQueue
    \/ ExtractProblems

(***************************************************************************)
(* Two concurrent calls of save_embedding_to_cache for the chunk id "c1",  *)
(* each with its own text, followed by a load.  A file write is one step;  *)
(* the two writes of a call are two steps, and nothing orders the steps of *)
(* different callers.                                                      *)
(***************************************************************************)
WritersIdle == wpc = <<>> /\ wtext = <<>> /\ got = <<>>

WritersInit ==
    /\ CacheIdle
    /\ wpc = [w \in {"w1", "w2"} |-> "npy"]
    /\ wtext \in {f \in [{"w1", "w2"} -> Texts] : f["w1"] # f["w2"]}
    /\ got = <<>>

\* np.save(cache_path, embedding) of writer w.
WriterSaveNpy(w) ==
    /\ wpc[w] = "npy"
    /\ npy' = [npy EXCEPT !["c1"] = SavedNpy(EmbedOf(wtext[w]))]
    /\ wpc' = [wpc EXCEPT ![w] = "meta"]
    /\ UNCHANGED <<notWriters, wtext, got, meta, chunks, cpc, idx, embeddings_list,
                   texts_to_embed, indices_to_embed, stats, new_embeddings, result,
                   provider_calls, runs, repeat, index_file, mapping_file>>

\* meta_path.write_text(text_hash) of writer w.
WriterSaveMeta(w) ==
    /\ wpc[w] = "meta"
    /\ meta' = [meta EXCEPT !["c1"] = SavedMeta(wtext[w])]
    /\ wpc' = [wpc EXCEPT ![w] = "done"]
    /\ UNCHANGED <<notWriters, wtext, got, npy, chunks, cpc, idx, embeddings_list,
                   texts_to_embed, indices_to_embed, stats, new_embeddings, result,
                   provider_calls, runs, repeat, index_file, mapping_file>>

\* A load_cached_embedding call made after both writers returned.
LaterLoad ==
    /\ \A w \in DOMAIN wpc : wpc[w] = "done"
    /\ wpc # <<>> /\ got = <<>>
    /\ \E text \in Texts :
          got' = <<[text |-> text, result |-> load_cached_embedding("c1", text)]>>
    /\ UNCHANGED <<notWriters, wpc, wtext, cacheVars>>

NextWriters ==
    \/ \E w \in {"w1", "w2"} : WriterSaveNpy(w)
    \/ \E w \in {"w1", "w2"} : WriterSaveMeta(w)
    \/ LaterLoad

(***************************************************************************)
(* The command-line runs: enrich_coverage.main with enrich_coverage, one   *)
(* step per topic, then generate_plan.main over the saved coverage.  A run *)
(* can be interrupted between two topics.                                  *)
(***************************************************************************)
RunsIdle ==
    /\ coverage = <<>> /\ present = {} /\ kpc = "off" /\ enriched_topics = <<>>
    /\ enriched_coverage = <<>> /\ output_file = <<>> /\ planned = 0 /\ plan_file = <<>>

\* The bullets tried: each has a chapter and the similarity of its query to
\* the rows of the index, in percent.
RunTopics ==
    { [chapter |-> 1, scores |-> <<80, 70>>],
      [chapter |-> 1, scores |-> <<70, 50>>],
      [chapter |-> 2, scores |-> <<50, 50>>],
      [chapter |-> 0, scores |-> <<80, 80>>] }

\* The mapping artifacts tried: a row of chapter 1 and a row of chapter 2, or
\* no row.
RunMappings ==
    { << [mapped |-> TRUE, chapter_number |-> 1, file_id |-> "f1"],
         [mapped |-> TRUE, chapter_number |-> 2, file_id |-> "f1"] >>,
      << >> }

RunsInit ==
    /\ coverage \in UNION {[1..n -> RunTopics] : n \in 0..MaxBlocks}
    /\ present \in SUBSET {"index", "mapping", "chunks"}
    /\ mapping \in RunMappings
    /\ index = <<>>
    /\ top_k = 2
    /\ use_chapter_filter \in BOOLEAN
    /\ min_score \in MinScores
    /\ filters = NoFilters /\ ranked = <<>> /\ results = <<>> /\ spc = "off"
    /\ chapter_number = 0 /\ tpc = "off" /\ searches = <<>> /\ enriched = <<>>
    /\ query_requests = <<>>
    /\ kpc = "main" /\ enriched_topics = <<>> /\ enriched_coverage = <<>>
    /\ output_file = <<>> /\ planned = 0 /\ plan_file = <<>>

\* Mutant: the medium bucket includes the score 0.75.
calculate_stats_MediumInclusive(topics) ==
    LET Count(P(_)) == Cardinality({k \in 1..Len(topics) : P(topics[k].confidence_score)})
        High(c) == c >= 75
        Medium(c) == 60 <= c /\ c <= 75
        Low(c) == c < 60
    IN [topics |-> topics, total_topics |-> Len(topics),
        high_confidence_count |-> Count(High),
        medium_confidence_count |-> Count(Medium),
        low_confidence_count |-> Count(Low)]

\* EnrichedCoverage(topics=...) followed by calculate_stats(); scores in
\* percent.
calculate_stats(topics) ==
    LET Count(P(_)) == Cardinality({k \in 1..Len(topics) : P(topics[k].confidence_score)})
        High(c) == c >= 75
        Medium(c) == 60 <= c /\ c < 75
        Low(c) == c < 60
    IN [topics |-> topics, total_topics |-> Len(topics),
        high_confidence_count |-> Count(High),
        medium_confidence_count |-> Count(Medium),
        low_confidence_count |-> Count(Low)]

\* Reading the chunk store: an absent store is a fatal missing input.
load_chunks_jsonl(store_present) == IF store_present THEN "loaded" ELSE "raise"

\* Mutant: the loop is left after its first topic.
LoopDone_AfterFirst(done, total) == done >= 1 \/ done = total

\* The for loop over the topics is exhausted.
LoopDone(done, total) == done = total

\* main: the index artifact is checked before enrich_coverage is called.
MainChecksIndex ==
    /\ kpc = "main"
    /\ kpc' = IF "index" \in present THEN "load" ELSE "exit"
    /\ UNCHANGED <<notRuns, searchVars, coverage, present, enriched_topics,
                   enriched_coverage, output_file, planned, plan_file>>

\* enrich_coverage: load_faiss_index and load_chunk_mapping; either raises
\* FileNotFoundError when its artifact is absent.
LoadIndexAndMapping ==
    /\ kpc = "load"
    /\ kpc' = IF {"index", "mapping"} \subseteq present THEN "topics" ELSE "exit"
    /\ UNCHANGED <<notRuns, searchVars, coverage, present, enriched_topics,
                   enriched_coverage, output_file, planned, plan_file>>

\* One iteration of the loop over the bullets: the whole of enrich_topic.
\* index holds the similarity of the topic's query to every row.  It embeds the query with one provider request, which can fail; searches
\* once or twice; and loads the chunk store only when a search found
\* something, which fails when the store is absent.
EnrichNextTopic ==
    /\ kpc = "topics" /\ ~LoopDone(Len(enriched_topics), Len(coverage))
    /\ LET topic == coverage[Len(enriched_topics) + 1]
           f == TopicFilters(use_chapter_filter, topic.chapter)
       IN
       \/ /\ query_requests' \in {Append(query_requests, "rate_limit"),
                                   Append(query_requests, "error")}
          /\ kpc' = "exit"
          /\ UNCHANGED <<index, searches, enriched_topics>>
       \/ /\ query_requests' = Append(query_requests, "ok")
          /\ index' = SubSeq(topic.scores, 1, Len(mapping))
          /\ \E first \in search_index(index', mapping, top_k, f) :
             \E second \in search_index(index', mapping, top_k, WithoutChapter(f)) :
                LET fallback == NeedsFallback(use_chapter_filter, first)
                    rs == IF fallback THEN second ELSE first
                IN
                /\ searches' = searches
                       \o <<[filters |-> f, hits |-> Len(first)]>>
                       \o (IF fallback
                           THEN <<[filters |-> WithoutChapter(f), hits |-> Len(second)]>>
                           ELSE <<>>)
                /\ IF rs = <<>>
                   THEN /\ enriched_topics' = Append(enriched_topics, EmptyEnrichment)
                        /\ kpc' = "topics"
                   ELSE IF load_chunks_jsonl("chunks" \in present) = "loaded"
                   THEN /\ enriched_topics' = Append(enriched_topics, Enrichment(rs))
                        /\ kpc' = "topics"
                   ELSE /\ enriched_topics' = enriched_topics
                        /\ kpc' = "exit"
    /\ UNCHANGED <<notRuns, mapping, top_k, filters, ranked, results, spc,
                   use_chapter_filter, chapter_number, tpc, enriched, min_score,
                   coverage, present, enriched_coverage, output_file, planned, plan_file>>

\* KeyboardInterrupt between two topics of either run.
Interrupt ==
    /\ \/ kpc = "topics" /\ kpc' = "exit"
       \/ kpc = "planning" /\ kpc' = "plan_exit"
    /\ UNCHANGED <<notRuns, searchVars, coverage, present, enriched_topics,
                   enriched_coverage, output_file, planned, plan_file>>

\* enrich_coverage builds the EnrichedCoverage, calculates the stats and
\* returns.
ReturnCoverage ==
    /\ kpc = "topics" /\ LoopDone(Len(enriched_topics), Len(coverage))
    /\ enriched_coverage' = <<calculate_stats(enriched_topics)>>
    /\ kpc' = "save"
    /\ UNCHANGED <<notRuns, searchVars, coverage, present, enriched_topics,
                   output_file, planned, plan_file>>

\* main writes the enriched coverage artifact.
SaveCoverage ==
    /\ kpc = "save"
    /\ output_file' = enriched_coverage
    /\ kpc' = "saved"
    /\ UNCHANGED <<notRuns, searchVars, coverage, present, enriched_topics,
                   enriched_coverage, planned, plan_file>>

\* generate_plan.main: exits when the enriched coverage artifact is absent,
\* and calls generate_multi_exam_plan otherwise.
PlanStart ==
    /\ kpc \in {"exit", "saved"}
    /\ kpc' = IF output_file = <<>> THEN "plan_exit" ELSE "planning"
    /\ UNCHANGED <<notRuns, searchVars, coverage, present, enriched_topics,
                   enriched_coverage, output_file, planned, plan_file>>

\* generate_multi_exam_plan works on one more topic, or raises on it and
\* main exits.
PlanNextTopic ==
    /\ kpc = "planning" /\ ~LoopDone(planned, Len(output_file[1].topics))
    /\ \/ planned' = planned + 1 /\ kpc' = "planning"
       \/ planned' = planned /\ kpc' = "plan_exit"
    /\ UNCHANGED <<notRuns, searchVars, coverage, present, enriched_topics,
                   enriched_coverage, output_file, plan_file>>

\* generate_multi_exam_plan returns and main writes the plan artifact.
SavePlan ==
    /\ kpc = "planning" /\ LoopDone(planned, Len(output_file[1].topics))
    /\ plan_file' = <<[total_topics |-> planned]>>
    /\ kpc' = "plan_saved"
    /\ UNCHANGED <<notRuns, searchVars, coverage, present, enriched_topics,
                   enriched_coverage, output_file, planned>>

NextRuns ==
    \/ MainChecksIndex
    \/ LoadIndexAndMapping
    \/ EnrichNextTopic
    \/ Interrupt
    \/ ReturnCoverage
    \/ SaveCoverage
    \/ PlanStart
    \/ PlanNextTopic
    \/ SavePlan

(***************************************************************************)
(* Specifications, one per subsystem.                                      *)
(***************************************************************************)
InitPlan == PlannerInit /\ CacheIdle /\ EmbedIdle /\ QuestionsIdle /\ SearchIdle /\ CalcIdle
    /\ WritersIdle /\ RunsIdle
SpecPlan == InitPlan /\ [][NextPlan]_vars

InitPlanArgs ==
    PlannerArgsInit /\ CacheIdle /\ EmbedIdle /\ QuestionsIdle /\ SearchIdle /\ CalcIdle
    /\ WritersIdle /\ RunsIdle
SpecPlanArgs == InitPlanArgs /\ [][NextPlan]_vars

\* The planner runs on its own and is always given the processor: a step
\* that can change the state is eventually taken.
SpecPlanLive == InitPlanArgs /\ [][NextPlan]_vars /\ WF_vars(NextPlan)

InitBuild == CacheIdle /\ PlannerIdle /\ EmbedIdle /\ QuestionsIdle /\ SearchIdle /\ CalcIdle
    /\ WritersIdle /\ RunsIdle
SpecBuild == InitBuild /\ [][NextBuild]_vars

InitEmbed == EmbedInit /\ PlannerIdle /\ CacheIdle /\ QuestionsIdle /\ SearchIdle /\ CalcIdle
    /\ WritersIdle /\ RunsIdle
SpecEmbed == InitEmbed /\ [][NextEmbed]_vars

InitQuestions == QuestionsInit /\ PlannerIdle /\ CacheIdle /\ EmbedIdle /\ SearchIdle /\ CalcIdle
    /\ WritersIdle /\ RunsIdle
SpecQuestions == InitQuestions /\ [][NextQuestions]_vars

InitSearch == SearchInit /\ PlannerIdle /\ CacheIdle /\ EmbedIdle /\ QuestionsIdle /\ CalcIdle
    /\ WritersIdle /\ RunsIdle
SpecSearch == InitSearch /\ [][NextSearch]_vars

InitEnrich == EnrichInit /\ PlannerIdle /\ CacheIdle /\ EmbedIdle /\ QuestionsIdle /\ CalcIdle
    /\ WritersIdle /\ RunsIdle
SpecEnrich == InitEnrich /\ [][NextEnrich]_vars

InitCalc ==
    CalcInit /\ PlannerIdle /\ CacheIdle /\ EmbedIdle /\ QuestionsIdle /\ SearchIdle
    /\ WritersIdle /\ RunsIdle
SpecCalc == InitCalc /\ [][NextCalc]_vars

InitWriters ==
    WritersInit /\ PlannerIdle /\ EmbedIdle /\ QuestionsIdle /\ SearchIdle /\ CalcIdle /\ RunsIdle
SpecWriters == InitWriters /\ [][NextWriters]_vars

InitRuns ==
    RunsInit /\ PlannerIdle /\ CacheIdle /\ EmbedIdle /\ QuestionsIdle /\ CalcIdle
    /\ WritersIdle
SpecRuns == InitRuns /\ [][NextRuns]_vars

(***************************************************************************)
(* Scheduler: derived views used by the properties.                        *)
(***************************************************************************)
TopicIds ==
    UNION { {<<i, p>> : p \in 1..Len(coverages[i])} : i \in 1..Len(coverages) }

PlanBlocks ==
    Flatten([d \in 1..Len(plan[1].days) |-> plan[1].days[d].blocks])

\* Minutes of exam e among the items scheduled so far, summed from the items.
ScheduledMinutes(sched, e) ==
    SumSeq([k \in 1..Len(sched) |->
               IF sched[k].exam_index = e THEN sched[k].minutes ELSE 0])

\* Exam e's topics in (priority_rank, chapter) order, computed from the
\* coverage alone: a stable insertion of each topic behind its equals.
ExamOrder(e) ==
    LET items == [p \in 1..Len(coverages[e]) |-> WorkItem(e, p, coverages[e][p])]
        Before(a, b) ==
            \/ LexLess(<<priority_order(a.priority), a.topic.chapter>>,
                       <<priority_order(b.priority), b.topic.chapter>>)
            \/ /\ priority_order(a.priority) = priority_order(b.priority)
               /\ a.topic.chapter = b.topic.chapter
               /\ a.pos < b.pos
        Rank(a) == 1 + Cardinality({q \in 1..Len(items) : Before(items[q], a)})
    IN [r \in 1..Len(items) |-> CHOOSE a \in Range(items) : Rank(a) = r]

\* C1: in every plan a day whose total exceeds minutes_per_day holds exactly
\* one item, and an item whose own estimate exceeds minutes_per_day is alone
\* on its day.
C1_OverBudgetDayIsSingle ==
    plan # <<>> =>
        \A d \in Range(plan[1].days) :
            /\ d.total_minutes > minutes_per_day => Len(d.blocks) = 1
            /\ (\E b \in Range(d.blocks) : b.time_estimate_minutes > minutes_per_day)
                  => Len(d.blocks) = 1

\* C2: whenever a plan is returned, every topic of every coverage is in
\* exactly one item of one day, with its own chapter and objective, and
\* total_topics is the number of supplied topics.
C2_EveryTopicOnce ==
    plan # <<>> =>
        LET bs == PlanBlocks IN
        /\ \A id \in TopicIds :
              /\ Cardinality({k \in 1..Len(bs) : <<bs[k].exam_index, bs[k].pos>> = id}) = 1
              /\ \A k \in 1..Len(bs) :
                    <<bs[k].exam_index, bs[k].pos>> = id =>
                        /\ bs[k].chapter = coverages[id[1]][id[2]].chapter
                        /\ bs[k].objective = coverages[id[1]][id[2]].bullet
        /\ Len(bs) = Cardinality(TopicIds)
        /\ plan[1].total_topics = SumSeq([i \in 1..Len(coverages) |-> Len(coverages[i])])

\* C2 witness: a returned plan over two exams with two topics each that
\* spans several days.
C2_Witness ==
    /\ plan # <<>>
    /\ Len(coverages) = 2 /\ Len(coverages[1]) = 2 /\ Len(coverages[2]) = 2
    /\ Len(plan[1].days) >= 2
    /\ plan[1].total_topics = 4

\* C9: every topic the balanced loop schedules is the first topic, in
\* (priority_rank, chapter) order, not yet scheduled of the exam with the
\* smallest cumulative scheduled minutes, the earliest such exam on a tie.
C9_BalancedPicksLeastLoaded ==
    [][ (ppc = "balanced_loop" /\ Len(scheduled_items') = Len(scheduled_items) + 1) =>
          LET x == scheduled_items'[Len(scheduled_items')]
              e == x.exam_index
              done == {<<scheduled_items[k].exam_index, scheduled_items[k].pos>> :
                          k \in 1..Len(scheduled_items)}
              order == ExamOrder(e)
              left == SelectSeq(order, LAMBDA a : <<a.exam_index, a.pos>> \notin done)
          IN
          /\ \A f \in 1..Len(coverages) :
                /\ ScheduledMinutes(scheduled_items, e) <= ScheduledMinutes(scheduled_items, f)
                /\ f < e => ScheduledMinutes(scheduled_items, f)
                               > ScheduledMinutes(scheduled_items, e)
          /\ left # <<>> /\ x = Head(left)
          /\ SubSeq(scheduled_items', 1, Len(scheduled_items)) = scheduled_items
      ]_vars

\* C9 witness: a finished balanced ordering of four topics over two exams in
\* which an exam's topics were taken out of their coverage order.
C9_Witness ==
    /\ strategy = "balanced" /\ ppc = "pack"
    /\ Len(coverages) = 2 /\ Len(scheduled_items) = 4
    /\ \E i, j \in 1..Len(scheduled_items) :
          /\ i < j
          /\ scheduled_items[i].exam_index = scheduled_items[j].exam_index
          /\ scheduled_items[i].pos > scheduled_items[j].pos

\* The two exams have the same number of topics, all of duration d.
EqualExams(d) ==
    /\ strategy = "balanced"
    /\ Len(coverages) = 2 /\ Len(coverages[1]) = Len(coverages[2])
    /\ \A id \in TopicIds : WorkItem(id[1], id[2], coverages[id[1]][id[2]]).minutes = d

\* C10: with two exams of equal topic count and equal topic duration d, the
\* exams' cumulative scheduled minutes never differ by more than d, during
\* the balanced ordering and in its final result.
C10_BalancedWithinOneTopic ==
    \A d \in {0, 45, 60, 100} :
        (EqualExams(d) /\ ppc \in {"balanced_loop", "pack", "done"}) =>
            LET a == ScheduledMinutes(scheduled_items, 1)
                b == ScheduledMinutes(scheduled_items, 2)
            IN a - b <= d /\ b - a <= d

\* C10 witness: two exams of two 45-minute topics each, fully ordered.
C10_Witness ==
    /\ EqualExams(45) /\ ppc = "done"
    /\ Len(coverages[1]) = 2 /\ Len(scheduled_items) = 4
    /\ ScheduledMinutes(scheduled_items, 1) = 90
    /\ ScheduledMinutes(scheduled_items, 2) = 90

C4_HitReturnsVectorOfDigest ==
    cpc # "save_meta" =>
        \A c \in ChunkIds, t \in Texts :
            LET r == load_cached_embedding(c, t) IN
            r.valid =>
                \E u \in Texts : /\ EmbedOf(u) = r.embedding.value
                                 /\ get_text_hash(u) = get_text_hash(t)

\* C5: whenever no build is between its two artifact writes and both
\* artifacts exist, the persisted index and the persisted mapping have the
\* same number of rows, also after a build was interrupted between the two
\* writes.  (The claim adds that row i is the embedding of the chunk of
\* entry i; the row counts alone already differ.)
C5_IndexMappingAligned ==
    (cpc # "write_mapping" /\ index_file.state = "ok" /\ mapping_file.state = "ok") =>
        Len(index_file.rows) = Len(mapping_file.entries)

\* C6: resolve returns one vector per chunk, in chunk order: the provider's
\* vector for the chunk's text at every miss position, the cached vector of
\* the chunk at every hit position.
C6_ResultInChunkOrder ==
    cpc = "done" =>
        /\ Len(result) = Len(chunks)
        /\ \A i \in 1..Len(chunks) :
              IF i \in Range(indices_to_embed)
              THEN result[i] = EmbedOf(chunks[i].text)
              ELSE /\ npy[chunks[i].chunk_id].state = "ok"
                   /\ result[i] = npy[chunks[i].chunk_id].value

\* C6 witness: a returned run whose first chunk was a hit and whose second
\* chunk, with another text, was a miss.
C6_Witness ==
    /\ cpc = "done" /\ Len(chunks) = 2
    /\ indices_to_embed = <<2>>
    /\ chunks[1].text # chunks[2].text
    /\ result[1] # result[2]

\* C7: a run that repeats the chunk list of the run that returned just
\* before it finds every chunk in the cache and never calls the provider.
C7_SecondResolveAllCached ==
    repeat =>
        /\ provider_calls = 0
        /\ texts_to_embed = <<>>
        /\ cpc \notin {"embed", "save_npy", "save_meta", "failed"}
        /\ cpc \in {"finish", "done", "write_mapping", "built"} =>
              /\ stats.cached = stats.total /\ stats.total = Len(chunks)
              /\ stats.computed = 0

\* C7 witness: the second run, over the two chunks the first run computed
\* on an empty cache, has returned.
C7_Witness ==
    /\ repeat /\ cpc = "done" /\ runs = 2
    /\ Len(chunks) = 2 /\ stats.cached = 2

\* C8: per batch the provider is called at most max_retries times; the k-th
\* rate-limit failure of a batch is followed by a wait of 2^(k-1) seconds;
\* after max_retries rate-limit failures of a batch the call has raised and
\* returned nothing, and before that the batch is still being retried; a
\* failure of another kind is the last request made and the call has raised.
C8_RetryPolicy ==
    /\ \A k \in 1..Len(requests) :
          LET r == requests[k]
              earlier == Len(SelectSeq(SubSeq(requests, 1, k - 1),
                                       LAMBDA q : q.start = r.start))
          IN
          /\ earlier < max_retries
          /\ r.outcome = "rate_limit" => r.wait = 2 ^ earlier
          /\ r.outcome = "other" => k = Len(requests) /\ epc = "raised"
          /\ (r.outcome = "rate_limit" /\ earlier + 1 = max_retries) =>
                k = Len(requests) /\ epc = "raised"
          /\ (r.outcome = "rate_limit" /\ earlier + 1 < max_retries /\ k = Len(requests)) =>
                epc = "batch" /\ batch_at = r.start
          /\ k < Len(requests) /\ requests[k + 1].start = r.start =>
                r.outcome = "rate_limit"
    /\ epc = "raised" => embeddings_array = <<>>
    /\ epc = "raised" =>
          requests # <<>> /\ requests[Len(requests)].outcome # "ok"
    /\ Len(SelectSeq(sleeps, LAMBDA w : w # 1))
          = Len(SelectSeq(requests, LAMBDA r : r.outcome = "rate_limit"))

\* C8 witness: after a first batch that succeeded on its second attempt, the
\* second batch hit the rate limit three times and the call has raised.
C8_Witness ==
    /\ epc = "raised" /\ max_retries = 3
    /\ Len(requests) = 5
    /\ requests[1].outcome = "rate_limit" /\ requests[2].outcome = "ok"
    /\ \A k \in 3..5 : requests[k].outcome = "rate_limit" /\ requests[k].start > 0
    /\ requests[5].wait = 4

\* The number of items of exam e among the first k scheduled items.
TakenFrom(sched, e, k) ==
    Cardinality({j \in 1..k : sched[j].exam_index = e})

\* C11: the round_robin output takes, for every exam, that exam's topics in
\* (priority_rank, chapter) order, and places the r-th topic of exam e before
\* the r'-th topic of exam f exactly when (r, e) precedes (r', f); in every
\* prefix two exams that both still have topics differ by at most 1 in the
\* number of topics taken; the output holds every topic.  Checked on the
\* ordering's result, as day packing first sees it.
C11_RoundRobinInterleaves ==
    (strategy = "round_robin" /\ ppc = "pack" /\ next_item = 1) =>
        LET s == scheduled_items
            orders == [e \in 1..Len(coverages) |-> ExamOrder(e)]
            rounds == [k \in 1..Len(s) |-> TakenFrom(s, s[k].exam_index, k)]
        IN
        /\ \A k \in 1..Len(s) : s[k] = orders[s[k].exam_index][rounds[k]]
        /\ \A i, j \in 1..Len(s) :
              i < j => LexLess(<<rounds[i], s[i].exam_index>>, <<rounds[j], s[j].exam_index>>)
        /\ \A k \in 0..Len(s) : \A e, f \in 1..Len(coverages) :
              (TakenFrom(s, e, k) < Len(coverages[e]) /\ TakenFrom(s, f, k) < Len(coverages[f]))
                 => /\ TakenFrom(s, e, k) - TakenFrom(s, f, k) <= 1
                    /\ TakenFrom(s, f, k) - TakenFrom(s, e, k) <= 1
        /\ Len(s) = Cardinality(TopicIds)

\* C11 witness: a finished round_robin ordering over an exam of three topics
\* and an exam of one, in which the first exam's topics were reordered by
\* priority and the last two items come from the first exam.
C11_Witness ==
    /\ strategy = "round_robin" /\ ppc = "pack"
    /\ Len(coverages) = 2 /\ Len(coverages[1]) = 3 /\ Len(coverages[2]) = 1
    /\ Len(scheduled_items) = 4
    /\ scheduled_items[2].exam_index = 2
    /\ scheduled_items[3].exam_index = 1 /\ scheduled_items[4].exam_index = 1
    /\ scheduled_items[1].pos > scheduled_items[3].pos
    /\ scheduled_items[1].priority # scheduled_items[3].priority

\* C12: the priority_first output holds every topic once, sorted by
\* (priority_rank, exam_order, chapter) with critical < high < medium < low
\* < optional; topics equal on all three keys keep their input order.
\* Checked on the ordering's result, as day packing first sees it.
C12_PriorityFirstSorted ==
    (strategy = "priority_first" /\ ppc = "pack" /\ next_item = 1) =>
        LET s == scheduled_items
            rank == [critical |-> 0, high |-> 1, medium |-> 2, low |-> 3, optional |-> 4]
            key(x) == <<rank[x.priority], x.exam_index, x.topic.chapter>>
        IN
        /\ Len(s) = Cardinality(TopicIds)
        /\ \A id \in TopicIds :
              \E k \in 1..Len(s) :
                  s[k] = WorkItem(id[1], id[2], coverages[id[1]][id[2]])
        /\ \A i, j \in 1..Len(s) :
              i < j =>
                 /\ ~LexLess(key(s[j]), key(s[i]))
                 /\ rank[s[i].priority] <= rank[s[j].priority]
                 /\ key(s[i]) = key(s[j]) => s[i].pos < s[j].pos

\* C12 witness: a priority_first ordering over two exams in which a critical
\* topic of the second exam precedes a medium topic of the first, a low
\* topic comes last, and two topics are equal on all three keys.
C12_Witness ==
    /\ strategy = "priority_first" /\ ppc = "pack"
    /\ Len(coverages) = 2 /\ Len(scheduled_items) = 4
    /\ scheduled_items[1].priority = "critical" /\ scheduled_items[1].exam_index = 2
    /\ scheduled_items[2].priority = "medium" /\ scheduled_items[2].exam_index = 1
    /\ scheduled_items[3].priority = "medium" /\ scheduled_items[3].exam_index = 1
    /\ scheduled_items[2].topic = scheduled_items[3].topic
    /\ scheduled_items[4].priority = "low"

\* The ids (exam, position) of a sequence of items or blocks.
IdsOf(s) == [k \in 1..Len(s) |-> <<s[k].exam_index, s[k].pos>>]

\* The first weekday on or after day d.
FirstWeekdayFrom(d) == CHOOSE w \in d..(d + 2) : w % 7 < 5 /\ \A v \in d..(w - 1) : v % 7 >= 5

\* C13: in every plan the days' items, concatenated in date order, are
\* exactly the ordered topic list, and for every two consecutive days the
\* earlier day's total plus the estimate of the later day's first item is
\* greater than minutes_per_day.
C13_NextFitPacking ==
    plan # <<>> =>
        LET ds == plan[1].days IN
        /\ IdsOf(PlanBlocks) = IdsOf(scheduled_items)
        /\ \A d \in 1..(Len(ds) - 1) :
              /\ ds[d].date < ds[d + 1].date
              /\ ds[d].total_minutes + ds[d + 1].blocks[1].time_estimate_minutes
                    > minutes_per_day

\* C13 witness: a plan of three days in which one day holds two items.
C13_Witness ==
    /\ plan # <<>> /\ Len(plan[1].days) = 3
    /\ \E d \in 1..3 : Len(plan[1].days[d].blocks) = 2
    /\ Len(scheduled_items) = 4

\* C14: in every plan no day falls on a Saturday or Sunday, every day holds
\* an item, the first day is the first weekday on or after start_date and
\* every following day is the next weekday after the day before it.
C14_WeekdaysInSequence ==
    plan # <<>> =>
        LET ds == plan[1].days IN
        /\ \A d \in 1..Len(ds) : ds[d].date % 7 \notin {5, 6} /\ Len(ds[d].blocks) >= 1
        /\ ds # <<>> => ds[1].date = FirstWeekdayFrom(start_date)
        /\ \A d \in 1..(Len(ds) - 1) : ds[d + 1].date = FirstWeekdayFrom(ds[d].date + 1)

\* C14 witness: a plan that starts on a Friday and continues on the Monday
\* and the Tuesday after it.
C14_Witness ==
    /\ plan # <<>> /\ start_date = 4 /\ Len(plan[1].days) >= 3
    /\ plan[1].days[1].date = 4 /\ plan[1].days[2].date = 7
    /\ plan[1].days[3].date = 8

\* The minutes the scheduler assigned to the work item a block was made of.
AssignedMinutes(b) == WorkItem(b.exam_index, b.pos, coverages[b.exam_index][b.pos]).minutes

\* C15: in every plan each item records the estimate the scheduler assigned
\* to its work item and packed it with, an estimate of 0 included, and each
\* day's total_minutes is the sum of those estimates.
C15_TotalsAreAssignedEstimates ==
    plan # <<>> =>
        \A d \in Range(plan[1].days) :
            /\ \A b \in Range(d.blocks) : b.time_estimate_minutes = AssignedMinutes(b)
            /\ d.total_minutes
                  = SumSeq([k \in 1..Len(d.blocks) |-> AssignedMinutes(d.blocks[k])])

\* The days opened so far by day packing.
OpenedDays == IF ppc = "pack" THEN days \o current_day ELSE days

WithoutQuestions(ds) ==
    [d \in 1..Len(ds) |->
        [ds[d] EXCEPT !.blocks = [j \in 1..Len(ds[d].blocks) |->
                                     [ds[d].blocks[j] EXCEPT !.study_question = ""]]]]

\* C17: no failure of question generation aborts plan generation, a block
\* whose question generation failed (provider error, missing credentials,
\* empty response) keeps a blank question, and the returned plan has the
\* days and items that packing produced.
C17_QuestionFailureNeverAborts ==
    /\ qpc # "raised"
    /\ \A k \in 1..Len(q_outcomes) :
          q_outcomes[k] \in {"error", "empty", "no_credentials"} =>
              AllBlocks(q_days)[k].study_question = ""
    /\ qpc = "returned" =>
          /\ q_plan # <<>>
          /\ WithoutQuestions(q_plan[1].days) = WithoutQuestions(q_days)

\* C18: every result search returns satisfies every filter that was
\* supplied: score at least min_score, chapter equal to the chapter filter
\* (or in its list), file id equal to the file filter.
C18_ResultsSatisfyFilters ==
    spc = "returned" =>
        \A k \in 1..Len(results) :
            /\ "min_score" \in filters.keys => results[k].score >= filters.min_score
            /\ "chapter_number" \in filters.keys =>
                  results[k].chapter_number \in filters.chapter_number.values
            /\ "file_id" \in filters.keys => results[k].file_id = filters.file_id

\* C18 witness: a search with all three filters returned a result while the
\* index also held a row below min_score, a row of another file and a row
\* without a mapping entry.
C18_Witness ==
    /\ spc = "returned" /\ filters.keys = {"chapter_number", "file_id", "min_score"}
    /\ results # <<>>
    /\ \E i, j, m \in 1..Len(index) :
          /\ index[i] < filters.min_score /\ mapping[i].mapped
          /\ mapping[j].mapped /\ mapping[j].file_id # filters.file_id
          /\ ~mapping[m].mapped

\* C19: search returns at most top_k results, in descending score with
\* equal scores in ascending row order, and they are the first top_k
\* candidates that pass the filters among the raw candidates.
C19_RankedByScoreThenRow ==
    spc = "returned" =>
        LET passing == SelectSeq(ranked, LAMBDA c : ~Rejected(c, mapping, filters)) IN
        /\ Len(results) <= top_k
        /\ Len(ranked) = SearchK(top_k, filters)
        /\ Len(results) = IF Len(passing) < top_k THEN Len(passing) ELSE top_k
        /\ \A k \in 1..Len(results) : results[k] = ResultOf(passing[k], mapping)
        /\ \A i, j \in 1..Len(results) :
              i < j =>
                 \/ results[i].score > results[j].score
                 \/ /\ results[i].score = results[j].score
                    /\ results[i].chunk_id < results[j].chunk_id

\* C20: the states of a topic's enrichment follow QUERY, FILTERED_SEARCH,
\* optionally UNFILTERED_SEARCH, EVIDENCE_EXTRACTION, DONE or NO_EVIDENCE;
\* the unfiltered search is made exactly when chapter filtering is enabled
\* and the filtered search returned fewer than 3 hits; it uses the filters
\* of the first search with only the chapter filter removed; at most two
\* searches are made; the topic ends in NO_EVIDENCE exactly when the last
\* search made returned no hit; the machine makes no other move.
C20_EnrichmentStateMachine ==
    /\ [](
      LET n == Len(searches)
          second == use_chapter_filter /\ n >= 1 /\ searches[1].hits < 3
      IN
      /\ n <= 2
      /\ tpc \in {"QUERY", "FILTERED_SEARCH", "RAISED"} => n = 0
      /\ tpc = "UNFILTERED_SEARCH" => n = 1 /\ second
      /\ tpc \in {"EVIDENCE_EXTRACTION", "DONE", "NO_EVIDENCE"} =>
            /\ n = (IF second THEN 2 ELSE 1)
            /\ (tpc = "NO_EVIDENCE") <=> (searches[n].hits = 0)
            /\ tpc = "NO_EVIDENCE" => enriched = <<EmptyEnrichment>>
            /\ tpc = "DONE" => enriched # <<>> /\ enriched[1].chunks_retrieved = searches[n].hits
      /\ n >= 1 =>
            /\ searches[1].filters.min_score = min_score
            /\ "min_score" \in searches[1].filters.keys
      /\ n = 2 =>
            /\ searches[2].filters.keys = searches[1].filters.keys \ {"chapter_number"}
            /\ searches[2].filters.min_score = searches[1].filters.min_score
            /\ searches[2].filters.file_id = searches[1].filters.file_id
       )
    /\ [][ tpc' # tpc =>
          <<tpc, tpc'>> \in { <<"QUERY", "FILTERED_SEARCH">>, <<"QUERY", "RAISED">>,
                              <<"FILTERED_SEARCH", "UNFILTERED_SEARCH">>,
                              <<"FILTERED_SEARCH", "EVIDENCE_EXTRACTION">>,
                              <<"FILTERED_SEARCH", "NO_EVIDENCE">>,
                              <<"UNFILTERED_SEARCH", "EVIDENCE_EXTRACTION">>,
                              <<"UNFILTERED_SEARCH", "NO_EVIDENCE">>,
                              <<"EVIDENCE_EXTRACTION", "DONE">> } ]_vars

\* C20 witness: the chapter-filtered search found two hits, the search
\* without the chapter filter found three, and the topic is done.
C20_Witness ==
    /\ tpc = "DONE" /\ use_chapter_filter /\ Len(searches) = 2
    /\ "chapter_number" \in searches[1].filters.keys
    /\ searches[1].hits = 2 /\ searches[2].hits = 3
    /\ enriched[1].chunks_retrieved = 3

\* C21: a topic whose last search found nothing is returned, not raised,
\* with confidence 0, no chunk, no reading pages and the
\* no-relevant-chunks note; a topic with hits carries the low-confidence
\* note exactly when the mean score of its hits is below 0.6, and an empty
\* note otherwise.
C21_NotesFollowEvidence ==
    (tpc \in {"NO_EVIDENCE", "EVIDENCE_EXTRACTION", "DONE"}) =>
        LET total == SumSeq([k \in 1..Len(results) |-> results[k].score]) IN
        /\ results = <<>> =>
              /\ tpc = "NO_EVIDENCE"
              /\ Len(enriched) = 1
              /\ enriched[1].confidence_score = 0
              /\ enriched[1].chunks_retrieved = 0
              /\ enriched[1].page_ranges = <<>>
              /\ enriched[1].notes = "No relevant chunks found above threshold"
        /\ (results # <<>> /\ tpc = "DONE") =>
              /\ Len(enriched) = 1
              /\ enriched[1].chunks_retrieved = Len(results)
              /\ enriched[1].page_ranges # <<>>
              /\ IF total < 60 * Len(results)
                 THEN enriched[1].notes =
                        "Low confidence: textbook may not align well with this objective"
                 ELSE enriched[1].notes = ""

\* C21 witness: a returned topic with the low-confidence note although one
\* of its hits scored above 0.6.
C21_Witness ==
    /\ tpc = "DONE"
    /\ enriched[1].notes # ""
    /\ \E k \in 1..Len(results) : results[k].score > 60

\* C29: embed_query fails on a rate-limit response only after it has
\* retried: a rate-limited query embedding that raised made more than one
\* provider request.
C29_QueryRateLimitRetried ==
    (tpc = "RAISED" /\ query_requests # <<>>
        /\ query_requests[Len(query_requests)] = "rate_limit") =>
        Len(query_requests) > 1

\* C23: consolidate_page_ranges returns ascending, pairwise disjoint closed
\* intervals with endpoints among the input pages; every input page lies in
\* exactly one interval; two pages that are neighbours in the sorted set of
\* pages share an interval exactly when they differ by at most
\* gap_tolerance.  The statement mentions only the set of pages, so order
\* and repetitions do not matter.  No page gives no interval, and the two
\* documented examples give the documented intervals.
C23_PageRangesPartition ==
    (fn = "consolidate_page_ranges" /\ ret # <<>>) =>
        LET S == Range(args.pages)
            g == args.gap_tolerance
            rs == ret[1]
            In(p, i) == rs[i][1] <= p /\ p <= rs[i][2]
            Neighbours(p, q) == p < q /\ ~ \E r \in S : p < r /\ r < q
        IN
        /\ S = {} <=> rs = <<>>
        /\ \A i \in 1..Len(rs) :
              /\ Len(rs[i]) = 2 /\ rs[i][1] <= rs[i][2]
              /\ rs[i][1] \in S /\ rs[i][2] \in S
        /\ \A i, j \in 1..Len(rs) : i < j => rs[i][2] < rs[j][1]
        /\ \A p \in S : Cardinality({i \in 1..Len(rs) : In(p, i)}) = 1
        /\ \A p, q \in S :
              Neighbours(p, q) =>
                  ((\E i \in 1..Len(rs) : In(p, i) /\ In(q, i)) <=> q - p <= g)
        /\ (args.pages = <<1, 2, 3, 7, 8, 15>> /\ g = 3) =>
              rs = << <<1, 3>>, <<7, 8>>, <<15, 15>> >>
        /\ (args.pages = <<5, 5, 6>> /\ g = 3) => rs = << <<5, 6>> >>

\* C23 witness: a list with a repeated page, not in ascending order, that
\* gives two intervals of which one merges pages two apart.
C23_Witness ==
    /\ fn = "consolidate_page_ranges" /\ ret # <<>>
    /\ args.pages = <<9, 4, 2, 4>>
    /\ ret[1] = << <<2, 4>>, <<9, 9>> >>

\* C24: with ratio = (floor(days * 5 / 7) * minutes_per_day) /
\* (total_topics * 45), taken as 1 when there is no topic, the feasibility
\* is comfortable/comprehensive for ratio >= 1.5, realistic/balanced for
\* ratio >= 0.9, tight/prioritized for ratio >= 0.5 and
\* impossible/cramming below; coverage_percentage is min(100, ratio * 100),
\* read up to the one decimal the output keeps; 10 topics over 20 days at
\* 90 minutes give 14 study days, ratio 2.8 and comfortable.
C24_FeasibilityByRatio ==
    (fn = "analyze_study_load" /\ ret # <<>>) =>
        LET r == ret[1]
            inclusive_days == (args.end_date - args.start_date) + 1
            study_days == (inclusive_days * 5) \div 7
            available == study_days * args.minutes_per_day
            needed == SumSeq(args.topic_counts) * 45
            Ge(n, d) == IF needed = 0 THEN d >= n ELSE available * d >= n * needed
            expected == IF Ge(3, 2) THEN <<"comfortable", "comprehensive">>
                        ELSE IF Ge(9, 10) THEN <<"realistic", "balanced">>
                        ELSE IF Ge(1, 2) THEN <<"tight", "prioritized">>
                        ELSE <<"impossible", "cramming">>
            diff == r.coverage_percentage * needed - 1000 * available
        IN
        /\ r.days_available = study_days
        /\ <<r.feasibility, r.recommendation>> = expected
        /\ IF needed = 0 \/ available >= needed
           THEN r.coverage_percentage = 1000
           ELSE 2 * diff <= needed /\ 2 * diff >= 0 - needed
        /\ (SumSeq(args.topic_counts) = 10 /\ inclusive_days = 20 /\ args.minutes_per_day = 90) =>
              /\ r.days_available = 14
              /\ available * 10 = 28 * needed
              /\ r.feasibility = "comfortable"

\* C30: with the external prioritizer the work queue holds exactly one
\* item for every topic of every coverage, in coverage order; the item
\* carries the priority, reason and minutes of the returned tuple whose
\* (chapter, objective) equals the topic's (chapter, bullet), the first
\* one when several tuples have that key, and medium, "Default priority"
\* and 45 minutes when no tuple has it.
C30_ExactKeyAssignment ==
    (fn = "prioritize_topics" /\ ret # <<>>) =>
        LET covs == args.coverages
            ps == args.priorities
            ids == {id \in (1..Len(covs)) \X (1..2) : id[2] <= Len(covs[id[1]])}
            Same(k, t) == ps[k].chapter = t.chapter /\ ps[k].objective = t.bullet
        IN
        /\ Len(ret[1]) = Cardinality(ids)
        /\ \A id \in ids :
              LET t == covs[id[1]][id[2]]
                  its == {n \in 1..Len(ret[1]) :
                             ret[1][n].exam_index = id[1] /\ ret[1][n].pos = id[2]}
              IN
              /\ Cardinality(its) = 1
              /\ \A n \in its :
                    /\ ret[1][n].topic = t
                    /\ IF \E k \in 1..Len(ps) : Same(k, t)
                       THEN \E k \in 1..Len(ps) :
                               /\ Same(k, t)
                               /\ \A j \in 1..(k - 1) : ~Same(j, t)
                               /\ ret[1][n].priority = ps[k].priority
                               /\ ret[1][n].priority_reason = ps[k].reason
                               /\ ret[1][n].minutes = ps[k].time_estimate_minutes
                       ELSE /\ ret[1][n].priority = "medium"
                            /\ ret[1][n].priority_reason = "Default priority"
                            /\ ret[1][n].minutes = 45

\* C30 witness: two exams hold the topic (2, "b3"); the prioritizer returned
\* a tuple for "b3" under chapter 1 and then the tuple for (2, "b3"), and
\* both items carry the second tuple's assignment.
C30_Witness ==
    /\ fn = "prioritize_topics" /\ ret # <<>>
    /\ Len(args.priorities) = 2
    /\ args.priorities[1].reason = "r4" /\ args.priorities[2].reason = "r3"
    /\ Len(ret[1]) = 2
    /\ ret[1][1].exam_index = 1 /\ ret[1][2].exam_index = 2
    /\ \A n \in 1..2 : ret[1][n].priority = "critical" /\ ret[1][n].minutes = 100

\* C28: when get_or_compute_embeddings calls the embed function it passes
\* exactly the texts of the chunks the cache misses, in chunk order; it
\* calls it once when there is a miss and not at all when every chunk is a
\* hit; the returned counts are total = number of chunks, cached = number
\* of hits and computed = number of misses, so cached + computed = total.
C28_OnlyMissesAreSent ==
    LET Miss(chunk) ==
            LET r == load_cached_embedding(chunk.chunk_id, chunk.text)
            IN ~(r.valid /\ r.embedding # None)
        misses == SelectSeq(chunks, Miss)
    IN
    /\ cpc = "embed" =>
          /\ provider_calls = 0
          /\ misses # <<>>
          /\ texts_to_embed = [k \in 1..Len(misses) |-> misses[k].text]
    /\ cpc \in {"save_npy", "save_meta", "finish", "done"} =>
          /\ provider_calls = IF texts_to_embed = <<>> THEN 0 ELSE 1
          /\ provider_calls = 1 =>
                new_embeddings = [k \in 1..Len(texts_to_embed) |-> EmbedOf(texts_to_embed[k])]
    /\ cpc = "finish" /\ texts_to_embed = <<>> => misses = <<>>
    /\ cpc = "done" =>
          /\ stats.total = Len(chunks)
          /\ stats.computed = Len(texts_to_embed)
          /\ stats.cached = Len(chunks) - Len(texts_to_embed)
          /\ stats.cached + stats.computed = stats.total

\* C28 witness: a resolve returned after one call that embedded one miss
\* while another chunk was a hit.
C28_Witness ==
    /\ cpc = "done" /\ provider_calls = 1
    /\ stats.cached >= 1 /\ stats.computed >= 1

\* C27: once both concurrent writers of "c1" have returned, the vector
\* artifact and the digest artifact were written by the same writer, and a
\* later load that reports a hit for a text returns the vector of that
\* text.
C27_EntryFromOneWriter ==
    (wpc # <<>> /\ \A w \in DOMAIN wpc : wpc[w] = "done") =>
        /\ \E w \in DOMAIN wpc :
              /\ npy["c1"] = SavedNpy(EmbedOf(wtext[w]))
              /\ meta["c1"] = SavedMeta(wtext[w])
        /\ (got # <<>> /\ got[1].result.valid
               /\ get_text_hash(wtext["w1"]) # get_text_hash(wtext["w2"])) =>
              got[1].result.embedding = Vec(EmbedOf(got[1].text))


\* C22: when enrich_coverage has returned, total_topics is the number of
\* enriched topics, the high bucket counts the topics scoring at least 0.75,
\* the medium bucket those from 0.6 up to but excluding 0.75, the low bucket
\* those under 0.6, every topic is in exactly one bucket and the three
\* counts add up to total_topics.
C22_BucketsPartitionTopics ==
    enriched_coverage # <<>> =>
        LET cov == enriched_coverage[1]
            ids == 1..Len(cov.topics)
            score(k) == cov.topics[k].confidence_score
            high == {k \in ids : score(k) >= 75}
            medium == {k \in ids : score(k) >= 60 /\ score(k) < 75}
            low == {k \in ids : score(k) < 60}
        IN /\ cov.total_topics = Len(cov.topics)
           /\ cov.high_confidence_count = Cardinality(high)
           /\ cov.medium_confidence_count = Cardinality(medium)
           /\ cov.low_confidence_count = Cardinality(low)
           /\ high \cup medium \cup low = ids
           /\ high \cap medium = {} /\ high \cap low = {} /\ medium \cap low = {}
           /\ cov.high_confidence_count + cov.medium_confidence_count
                  + cov.low_confidence_count = cov.total_topics

\* A returned coverage with a topic scoring exactly 0.75, a medium topic and
\* a low one.
C22_Witness ==
    /\ enriched_coverage # <<>>
    /\ \E k \in 1..Len(enriched_coverage[1].topics) :
          enriched_coverage[1].topics[k].confidence_score = 75
    /\ enriched_coverage[1].high_confidence_count >= 1
    /\ enriched_coverage[1].low_confidence_count >= 1


\* C25: a run started while the index, the mapping or the chunk store is
\* absent makes no provider request and searches no topic, and produces no
\* enriched coverage.
C25_MissingInputStopsBeforeWork ==
    (kpc # "off" /\ present # {"index", "mapping", "chunks"}) =>
        /\ query_requests = <<>>
        /\ searches = <<>>
        /\ enriched_coverage = <<>>

\* C26: an artifact is written only by a run that processed every topic: the
\* enriched coverage holds one enriched topic per bullet, the plan was made
\* from every topic of the coverage, and a run that exited wrote nothing.
C26_AllOrNothing ==
    /\ output_file # <<>> =>
          /\ Len(enriched_topics) = Len(coverage)
          /\ output_file[1].topics = enriched_topics
    /\ (kpc = "exit" \/ (kpc = "plan_exit" /\ Len(enriched_topics) < Len(coverage))) =>
          output_file = <<>>
    /\ plan_file # <<>> =>
          /\ output_file # <<>>
          /\ planned = Len(output_file[1].topics)
    /\ kpc = "plan_exit" => plan_file = <<>>

\* An enrichment run stopped after its first topic of several, and a plan run
\* stopped after its first topic of several; neither wrote its artifact.
C26_Witness ==
    \/ /\ kpc = "exit" /\ Len(enriched_topics) >= 1
       /\ Len(enriched_topics) < Len(coverage) /\ output_file = <<>>
    \/ /\ kpc = "plan_exit" /\ planned >= 1 /\ output_file # <<>>
       /\ planned < Len(output_file[1].topics) /\ plan_file = <<>>


\* C31: a plan is produced only for a start date not after the end date and
\* a strategy that is one of round_robin, priority_first and balanced.
C31_InvalidArgumentsGiveNoPlan ==
    plan # <<>> => (start_date <= end_date /\ strategy \in Strategies)


\* C32: extract_practice_problems returns at most max_problems entries, for
\* every max_problems from 0 up; it visits no match after the one that
\* completed the list; and the entries are in chunk order.
C32_AtMostMaxProblems ==
    (fn = "extract_practice_problems" /\ ret # <<>>) =>
        LET problems == ret[1].problems IN
        /\ Len(problems) <= args.max_problems
        /\ Len(problems) = args.max_problems => ret[1].scanned <= args.max_problems
        /\ \A i, j \in 1..Len(problems) : i < j => problems[i].chunk <= problems[j].chunk


\* C33: the confidence of a topic with hits is the mean of the scores of its
\* final results (in whole percent, rounded down), and it lies between
\* min_score and 1.
C33_ConfidenceIsMeanScore ==
    tpc = "DONE" =>
        LET n == Len(results)
            total == SumSeq([k \in 1..n |-> results[k].score])
            c == enriched[1].confidence_score
        IN /\ n >= 1
           /\ n * c <= total /\ total < n * (c + 1)
           /\ min_score <= c /\ c <= 100
           /\ 0 <= c

\* A finished topic with hits of different scores, whose confidence is
\* strictly between the lowest and the highest of them.
C33_Witness ==
    /\ tpc = "DONE" /\ Len(results) >= 2
    /\ \E i, j \in 1..Len(results) :
          /\ results[i].score < enriched[1].confidence_score
          /\ enriched[1].confidence_score < results[j].score


\* C34: the ordering step ends for every strategy and every input, and every
\* iteration of the balanced loop takes one topic off the work list.
C34_OrderingTerminates ==
    /\ <>(ppc \in {"pack", "done"})
    /\ [](ppc = "balanced_loop" => BalancedPick(work_items, exam_minutes) # 0)


\* C35: the work queue of a run with the external prioritizer is either the
\* one where every topic has the priority, reason and minutes of the
\* prioritizer's result, or, when an item of the result names a priority
\* outside the enum, the one where every topic has the fallback assignment.
C35_PrioritiesAllOrNothing ==
    (fn = "prioritize_topics_unknown_priority" /\ ret # <<>>) =>
        LET result_topics == prioritize_topics(args.coverages, args.priorities)
            Queue(map) == Flatten([i \in 1..Len(args.coverages) |->
                              [p \in 1..Len(args.coverages[i]) |->
                                  WorkItemWith(map, i, p, args.coverages[i][p])]])
            failed == \E k \in 1..Len(result_topics) :
                          result_topics[k].priority \notin PriorityNames
        IN ret[1] = IF failed THEN Queue(LookupMap(<<>>))
                    ELSE Queue(LookupMap(result_topics))


\* C36: a resolve fails only where the embed function raises, and from the
\* start of a resolve up to and including that failure no step creates or
\* changes a cache artifact.
C36_FailedResolveLeavesCache ==
    [][ /\ (cpc' = "failed" /\ cpc # "failed") => cpc = "embed"
        /\ (cpc \in {"check", "embed"} \/ cpc' \in {"check", "embed", "failed"}) =>
              (npy' = npy /\ meta' = meta) ]_vars

\* A resolve of a later run failed while the cache holds an entry saved by
\* an earlier run and lacks the entry of another chunk.
C36_Witness ==
    /\ cpc = "failed" /\ runs >= 2
    /\ \E c, d \in ChunkIds : npy[c] # NoFile /\ npy[d] = NoFile


\* C37: when embed_texts has returned, every request carried at most
\* batch_size texts, the batches of the answered requests in order make up
\* the input list, and the result holds the vector of text i at position i.
C37_BatchesCoverTextsInOrder ==
    epc = "returned" =>
        LET answered == SelectSeq(requests, LAMBDA r : r.outcome = "ok") IN
        /\ \A k \in 1..Len(requests) : Len(requests[k].batch) <= batch_size
        /\ Flatten([k \in 1..Len(answered) |-> answered[k].batch]) = texts
        /\ embeddings_array = <<[i \in 1..Len(texts) |-> EmbedOf(texts[i])]>>


\* C38: when the fallback search is made after a chapter-filtered search
\* with at least one hit, every chunk of the filtered result is among the
\* final results, and the final result is at least as long.
C38_FallbackKeepsFilteredHits ==
    [][ (/\ tpc = "UNFILTERED_SEARCH" /\ tpc' # "UNFILTERED_SEARCH"
         /\ "chapter_number" \in filters.keys /\ Len(results) >= 1) =>
           /\ \A k \in 1..Len(results) :
                 \E j \in 1..Len(results') : results'[j].chunk_id = results[k].chunk_id
           /\ Len(results') >= Len(results) ]_vars


\* C39: a search with filters over an index that holds at least top_k rows
\* passing every supplied filter returns top_k results, and it returns every
\* passing row that fewer than top_k passing rows outscore.
C39_FilteredSearchFindsPassingRows ==
    (spc = "returned" /\ filters.keys # {}) =>
        LET passing == {i \in 1..Len(index) :
                           ~Rejected([row |-> i - 1, score |-> index[i]], mapping, filters)}
        IN /\ Cardinality(passing) >= top_k => Len(results) = top_k
           /\ \A i \in passing :
                 Cardinality({j \in passing : index[j] > index[i]}) < top_k =>
                    \E k \in 1..Len(results) : results[k].chunk_id = i - 1


\* C39 as amended: for a search with filters, when at least top_k passing
\* rows are among the top_k * 3 best rows of the index, top_k results are
\* returned; and a passing row among those best rows is returned when fewer
\* than top_k other passing rows score at least as high.  A row is among the
\* best rows in any order of equal scores when fewer than top_k * 3 other
\* rows score at least as high.
C39_FindsPassingRowsAmongCandidates ==
    (spc = "returned" /\ filters.keys # {}) =>
        LET rows == 1..Len(index)
            passing == {i \in rows :
                           ~Rejected([row |-> i - 1, score |-> index[i]], mapping, filters)}
            Candidate(i) ==
                Cardinality({j \in rows \ {i} : index[j] >= index[i]}) < top_k * 3
        IN /\ Cardinality({i \in passing : Candidate(i)}) >= top_k => Len(results) = top_k
           /\ \A i \in passing :
                 (/\ Candidate(i)
                  /\ Cardinality({j \in passing \ {i} : index[j] >= index[i]}) < top_k) =>
                    \E k \in 1..Len(results) : results[k].chunk_id = i - 1

\* A search for one result over four rows returned the third best row of
\* the index, the two better rows failing a filter.
C39_Witness ==
    /\ spc = "returned" /\ filters.keys # {} /\ top_k = 1
    /\ Len(index) = 4 /\ Len(results) = 1
    /\ Cardinality({j \in 1..Len(index) : index[j] > results[1].score}) = 2


\* C40: when analyze_study_load reports "comfortable" for the coverages, the
\* dates and the minutes per day of a run, the plan made for them with the
\* heuristic time estimates has no day after end_date.
C40_ComfortableLoadFitsWindow ==
    (/\ plan # <<>>
     /\ \A i \in 1..Len(coverages) : \A p \in 1..Len(coverages[i]) :
           <<coverages[i][p].chapter, coverages[i][p].bullet>> \notin DOMAIN priority_map
     /\ analyze_study_load([i \in 1..Len(coverages) |-> Len(coverages[i])],
                           start_date, end_date, minutes_per_day).feasibility
           = "comfortable") =>
        \A k \in 1..Len(plan[1].days) : plan[1].days[k].date <= end_date

====
